---- MODULE Spec2Model ----
(***************************************************************************)
(* Model of ic-certified-assets (src/ic-certified-assets/src/lib.rs): the  *)
(* certified asset canister.  One canister message is one step: the host   *)
(* runs a handler to completion and, when the handler traps (trap() or a   *)
(* Rust panic), discards every change the handler made.                    *)
(*                                                                         *)
(* Byte strings are sequences of small integers.  A SHA-256 digest is a    *)
(* sequence of integers as well: the hash functions are modelled as        *)
(* collision-free, each one tagging what it hashed, so that two digests    *)
(* are equal exactly when the same function hashed the same input.         *)
(* Time is counted in units of 150 s.                                      *)
(***************************************************************************)
EXTENDS Integers, Sequences, FiniteSets, TLC

VARIABLES assets, chunks, next_chunk_id, batches, next_batch_id, authorized,
          asset_hashes, chunk_hashes, certified_data, now, resp, upgrades

vars == <<assets, chunks, next_chunk_id, batches, next_batch_id, authorized,
          asset_hashes, chunk_hashes, certified_data, now, resp, upgrades>>

\* The canister state a trap rolls back (STATE, ASSET_HASHES, CHUNK_HASHES and
\* the certified data held by the host).
canister == <<assets, chunks, next_chunk_id, batches, next_batch_id, authorized,
              asset_hashes, chunk_hashes, certified_data>>

-----------------------------------------------------------------------------
\* Bounds of the model.
MaxTime == 3
MaxBatchId == 1
MaxChunkId == 2
MaxOps == 2
MaxUpgrades == 1
MaxAuthorized == 2

-----------------------------------------------------------------------------
\* Program constants.
BATCH_EXPIRY_NANOS == 2

ENCODING_CERTIFICATION_ORDER == <<"identity", "gzip", "compress", "deflate", "br">>

INDEX_FILE == "/index.html"

-----------------------------------------------------------------------------
\* Finite maps (HashMap, RbTree) are functions on their key set.
EmptyMap == [x \in {} |-> x]

Has(m, k) == k \in DOMAIN m

Put(m, k, v) == [x \in (DOMAIN m) \cup {k} |-> IF x = k THEN v ELSE m[x]]

Remove(m, k) == [x \in (DOMAIN m) \ {k} |-> m[x]]

\* Option<ByteBuf> arguments: None, or Some(bytes).  NoSha is None; ShortSha is
\* Some(bytes) with a length other than 32; every other value is Some(32 bytes).
NoSha == <<-1>>

ShortSha == <<-2>>

\* A caller-chosen 32-byte value that is not the digest of anything stored.
RawSha == <<9>>

\* [u8; 32]::default(), the digest of AssetEncoding::default().
ZeroSha == <<8>>

\* sha2::Sha256 over a byte string.
hash_bytes(bytes) == <<0>> \o bytes

\* RbTree::root_hash of a chunk-hash tree: a digest of all its (key, value)
\* pairs.  The keys are the decimal strings of chunk indices; the model keeps
\* the index itself as the key.
RECURSIVE TreeDigest(_, _)
TreeDigest(tree, keys) ==
    IF keys = {} THEN <<>>
    ELSE LET k == CHOOSE x \in keys : \A y \in keys : x <= y
         IN <<k, Len(tree[k])>> \o tree[k] \o TreeDigest(tree, keys \ {k})

root_hash(tree) == <<1>> \o TreeDigest(tree, DOMAIN tree)

\* labeled_hash(b"http_assets", &tree.root_hash()) of the asset-hash tree.
labeled_hash(tree) == [label |-> "http_assets", root |-> tree]

\* The certified data of a canister that never called set_certified_data.
NoCertifiedData == [label |-> "", root |-> EmptyMap]

-----------------------------------------------------------------------------
\* The mutable state a handler works on, as one record; trapped records that
\* the handler has trapped (every later step of the handler is then skipped).
Current ==
    [assets |-> assets, chunks |-> chunks, next_chunk_id |-> next_chunk_id,
     batches |-> batches, next_batch_id |-> next_batch_id,
     authorized |-> authorized, asset_hashes |-> asset_hashes,
     chunk_hashes |-> chunk_hashes, certified_data |-> certified_data,
     trapped |-> FALSE, msg |-> ""]

trap(s, m) == [s EXCEPT !.trapped = TRUE, !.msg = m]

\* AssetEncoding::default() and Asset::default().
DefaultEncoding ==
    [modified |-> 0, content_chunks |-> <<>>, total_length |-> 0,
     certified |-> FALSE, sha256 |-> ZeroSha]

DefaultAsset == [content_type |-> "", encodings |-> EmptyMap]

-----------------------------------------------------------------------------
\* Unsigned subtraction x - 1.  At x = 0 the build decides: with overflow
\* checks the subtraction panics, without them it wraps to the all-ones value
\* of the type, which the model writes AllOnes.
AllOnes == 0 - 1

\* usize::MAX converted to u64.  On wasm32, the target of a canister, it is
\* 2^32 - 1, which the model writes Usize32Max; on a 64-bit target it is the
\* all-ones u64.  env.usize_max is the one of the build.
Usize32Max == 0 - 2

\* Inputs a handler reads from its environment: env.now is time(), env.hm the
\* iteration order of the HashMap of encodings (a sequence of encoding names),
\* env.overflow_checks whether the build panics on integer overflow.

-----------------------------------------------------------------------------
\* Certification engine.

set_root_hash(s) == [s EXCEPT !.certified_data = labeled_hash(s.asset_hashes)]

certify_asset(s, key, content_hash) ==
    set_root_hash([s EXCEPT !.asset_hashes = Put(@, key, content_hash)])

delete_asset_hash(s, key) ==
    set_root_hash([s EXCEPT !.asset_hashes = Remove(@, key)])

\* set_chunks_to_tree that replaces the tree of key by the hashes of
\* content_chunks.
set_chunks_to_tree_rebuild(s, key, content_chunks) ==
    [s EXCEPT !.chunk_hashes =
        Put(@, key, [i \in 0..(Len(content_chunks) - 1) |-> content_chunks[i + 1].sha256])]

set_chunks_to_tree(s, key, content_chunks) ==
    LET tree == IF Has(s.chunk_hashes, key) THEN s.chunk_hashes[key] ELSE EmptyMap
        idx == {i \in 0..(Len(content_chunks) - 1) : ~Has(tree, i)}
        tree2 == [i \in (DOMAIN tree) \cup idx |->
                    IF Has(tree, i) THEN tree[i] ELSE content_chunks[i + 1].sha256]
    IN [s EXCEPT !.chunk_hashes = Put(@, key, tree2)]

delete_chunks(s, key) == [s EXCEPT !.chunk_hashes = Remove(@, key)]

\* The first name of `order` (from position i on) that `encodings` has, "" if none.
RECURSIVE FirstPresent(_, _, _)
FirstPresent(order, encodings, i) ==
    IF i > Len(order) THEN ""
    ELSE IF Has(encodings, order[i]) THEN order[i]
    ELSE FirstPresent(order, encodings, i + 1)

\* on_asset_change that always certifies the first encoding the hash map
\* yields, whatever is certified already.
on_asset_change_hash_order(s, key, env) ==
    LET encodings == s.assets[key].encodings
    IN IF DOMAIN encodings = {} THEN delete_chunks(delete_asset_hash(s, key), key)
       ELSE LET cleared == [e \in DOMAIN encodings |->
                               [encodings[e] EXCEPT !.certified = FALSE]]
                chosen == FirstPresent(env.hm, encodings, 1)
                s1 == certify_asset(s, key, cleared[chosen].sha256)
                s2 == [s1 EXCEPT !.assets[key].encodings =
                                     [cleared EXCEPT ![chosen].certified = TRUE]]
            IN set_chunks_to_tree(s2, key, cleared[chosen].content_chunks)

\* on_asset_change without the loop that clears the certified flags.
on_asset_change_keep_flags(s, key, env) ==
    LET encodings == s.assets[key].encodings
        preferred == FirstPresent(ENCODING_CERTIFICATION_ORDER, encodings, 1)
    IN IF preferred # "" /\ encodings[preferred].certified THEN s
       ELSE IF DOMAIN encodings = {} THEN delete_chunks(delete_asset_hash(s, key), key)
       ELSE LET chosen == IF preferred # "" THEN preferred
                          ELSE FirstPresent(env.hm, encodings, 1)
                s1 == certify_asset(s, key, encodings[chosen].sha256)
                s2 == [s1 EXCEPT !.assets[key].encodings[chosen].certified = TRUE]
            IN set_chunks_to_tree(s2, key, encodings[chosen].content_chunks)

on_asset_change(s, key, env) ==
    LET encodings == s.assets[key].encodings
        preferred == FirstPresent(ENCODING_CERTIFICATION_ORDER, encodings, 1)
    IN IF preferred # "" /\ encodings[preferred].certified THEN s
       ELSE IF DOMAIN encodings = {} THEN delete_chunks(delete_asset_hash(s, key), key)
       ELSE LET cleared == [e \in DOMAIN encodings |->
                               [encodings[e] EXCEPT !.certified = FALSE]]
                chosen == IF preferred # "" THEN preferred
                          ELSE FirstPresent(env.hm, encodings, 1)
                s1 == certify_asset(s, key, cleared[chosen].sha256)
                s2 == [s1 EXCEPT !.assets[key].encodings =
                                     [cleared EXCEPT ![chosen].certified = TRUE]]
            IN set_chunks_to_tree(s2, key, cleared[chosen].content_chunks)

-----------------------------------------------------------------------------
\* Asset store.

is_authorized(s, caller) == \E i \in 1..Len(s.authorized) : s.authorized[i] = caller

\* store that appends the chunk to the chunks the encoding already has.
store_append(s, arg, env) ==
    LET asset0 == IF Has(s.assets, arg.key) THEN s.assets[arg.key] ELSE DefaultAsset
        hash == hash_bytes(arg.content)
        encoding0 == IF Has(asset0.encodings, arg.content_encoding)
                     THEN asset0.encodings[arg.content_encoding] ELSE DefaultEncoding
        encoding == [encoding0 EXCEPT
                        !.total_length = @ + Len(arg.content),
                        !.content_chunks =
                            Append(@, [content |-> arg.content, start_byte |-> 0,
                                       end_byte |-> Len(arg.content) - 1,
                                       sha256 |-> hash]),
                        !.modified = env.now,
                        !.sha256 = hash]
        asset == [content_type |-> arg.content_type,
                  encodings |-> Put(asset0.encodings, arg.content_encoding, encoding)]
    IN IF arg.sha256 # NoSha /\ arg.sha256 # hash THEN trap(s, "sha256 mismatch")
       ELSE on_asset_change([s EXCEPT !.assets = Put(@, arg.key, asset)], arg.key, env)

\* arg: [key, content_type, content_encoding, content, sha256]
store(s, arg, env) ==
    LET asset0 == IF Has(s.assets, arg.key) THEN s.assets[arg.key] ELSE DefaultAsset
        hash == hash_bytes(arg.content)
        encoding0 == IF Has(asset0.encodings, arg.content_encoding)
                     THEN asset0.encodings[arg.content_encoding] ELSE DefaultEncoding
        total_length == Len(arg.content)
        encoding == [encoding0 EXCEPT
                        !.total_length = total_length,
                        !.content_chunks =
                            <<[content |-> arg.content, start_byte |-> 0,
                               end_byte |-> IF total_length = 0 THEN env.usize_max
                                            ELSE total_length - 1,
                               sha256 |-> hash]>>,
                        !.modified = env.now,
                        !.sha256 = hash]
        asset == [content_type |-> arg.content_type,
                  encodings |-> Put(asset0.encodings, arg.content_encoding, encoding)]
    IN IF arg.sha256 # NoSha /\ arg.sha256 # hash THEN trap(s, "sha256 mismatch")
       ELSE IF total_length = 0 /\ env.overflow_checks
            THEN trap(s, "attempt to subtract with overflow")
       ELSE on_asset_change([s EXCEPT !.assets = Put(@, arg.key, asset)], arg.key, env)

\* arg: [key, content_type]
\* do_create_asset that replaces an existing asset of the same content type.
do_create_asset_overwrite(s, arg) ==
    IF Has(s.assets, arg.key) /\ s.assets[arg.key].content_type # arg.content_type
    THEN trap(s, "create_asset: content type mismatch")
    ELSE [s EXCEPT !.assets = Put(@, arg.key,
                      [content_type |-> arg.content_type, encodings |-> EmptyMap])]

do_create_asset(s, arg) ==
    IF Has(s.assets, arg.key)
    THEN IF s.assets[arg.key].content_type # arg.content_type
         THEN trap(s, "create_asset: content type mismatch")
         ELSE s
    ELSE [s EXCEPT !.assets = Put(@, arg.key,
                      [content_type |-> arg.content_type, encodings |-> EmptyMap])]

\* The chunk assembly loop reading the staged chunks without removing them.
RECURSIVE AssembleChunks_keep(_, _, _, _)
AssembleChunks_keep(chunk_ids, i, acc, env) ==
    IF i > Len(chunk_ids) \/ acc.failed # "" THEN acc
    ELSE LET chunk_id == chunk_ids[i]
         IN IF ~Has(acc.chunks, chunk_id)
            THEN [acc EXCEPT !.failed = "chunk not found"]
            ELSE LET chunk == acc.chunks[chunk_id]
                     len == Len(chunk.content)
                 IN AssembleChunks_keep(chunk_ids, i + 1,
                           [chunks |-> acc.chunks,
                            content_chunks |-> Append(acc.content_chunks,
                               [content |-> chunk.content,
                                start_byte |-> acc.reduced_total,
                                end_byte |-> acc.reduced_total + len - 1,
                                sha256 |-> chunk.sha256]),
                            reduced_total |-> acc.reduced_total + len,
                            failed |-> ""], env)

\* The loop of do_set_asset_content over chunk_ids from position i on: acc is
\* [chunks, content_chunks, reduced_total, failed], failed naming the panic.
RECURSIVE AssembleChunks(_, _, _, _)
AssembleChunks(chunk_ids, i, acc, env) ==
    IF i > Len(chunk_ids) \/ acc.failed # "" THEN acc
    ELSE LET chunk_id == chunk_ids[i]
         IN IF ~Has(acc.chunks, chunk_id)
            THEN [acc EXCEPT !.failed = "chunk not found"]
            ELSE LET chunk == acc.chunks[chunk_id]
                     len == Len(chunk.content)
                 IN IF acc.reduced_total + len = 0 /\ env.overflow_checks
                    THEN [acc EXCEPT !.failed = "attempt to subtract with overflow"]
                    ELSE AssembleChunks(chunk_ids, i + 1,
                           [chunks |-> Remove(acc.chunks, chunk_id),
                            content_chunks |-> Append(acc.content_chunks,
                               [content |-> chunk.content,
                                start_byte |-> acc.reduced_total,
                                end_byte |-> IF acc.reduced_total + len = 0 THEN AllOnes
                                             ELSE acc.reduced_total + len - 1,
                                sha256 |-> chunk.sha256]),
                            reduced_total |-> acc.reduced_total + len,
                            failed |-> ""], env)

\* arg: [key, content_encoding, chunk_ids, sha256]
do_set_asset_content(s, arg, env) ==
    IF arg.chunk_ids = <<>> THEN trap(s, "encoding must have at least one chunk")
    ELSE IF ~Has(s.assets, arg.key) THEN trap(s, "asset not found")
    ELSE LET acc == AssembleChunks(arg.chunk_ids, 1,
                       [chunks |-> s.chunks, content_chunks |-> <<>>,
                        reduced_total |-> 0, failed |-> ""], env)
         IN IF acc.failed # "" THEN trap(s, acc.failed)
            ELSE IF arg.sha256 = ShortSha THEN trap(s, "invalid SHA-256")
            ELSE LET s1 == [s EXCEPT !.chunks = acc.chunks]
                     s2 == IF arg.sha256 = NoSha
                           THEN set_chunks_to_tree(s1, arg.key, acc.content_chunks)
                           ELSE s1
                     sha256 == IF arg.sha256 = NoSha
                               THEN root_hash(s2.chunk_hashes[arg.key])
                               ELSE arg.sha256
                     enc == [modified |-> env.now,
                             content_chunks |-> acc.content_chunks,
                             certified |-> FALSE,
                             total_length |-> acc.reduced_total,
                             sha256 |-> sha256]
                     s3 == [s2 EXCEPT !.assets[arg.key].encodings =
                                          Put(@, arg.content_encoding, enc)]
                 IN on_asset_change(s3, arg.key, env)

\* arg: [key, content_encoding]
do_unset_asset_content(s, arg, env) ==
    IF ~Has(s.assets, arg.key) THEN trap(s, "asset not found")
    ELSE IF Has(s.assets[arg.key].encodings, arg.content_encoding)
         THEN on_asset_change(
                 [s EXCEPT !.assets[arg.key].encodings = Remove(@, arg.content_encoding)],
                 arg.key, env)
         ELSE s

\* arg: [key]
do_delete_asset(s, arg) ==
    delete_asset_hash([s EXCEPT !.assets = Remove(@, arg.key)], arg.key)

\* do_clear that empties the authorized list as well.
do_clear_authorized(s) ==
    [s EXCEPT !.assets = EmptyMap, !.batches = EmptyMap, !.chunks = EmptyMap,
              !.next_batch_id = 1, !.next_chunk_id = 1, !.authorized = <<>>]

do_clear(s) ==
    [s EXCEPT !.assets = EmptyMap, !.batches = EmptyMap, !.chunks = EmptyMap,
              !.next_batch_id = 1, !.next_chunk_id = 1]

-----------------------------------------------------------------------------
\* Upload engine.

\* HashMap::retain: the entries of m whose value satisfies keep.
Retain(m, keep(_)) == [k \in {x \in DOMAIN m : keep(m[x])} |-> m[k]]

\* create_batch whose sweep keeps a batch that expires exactly now.
create_batch_late_sweep(s, env) ==
    LET batch_id == s.next_batch_id
        batches1 == Put(s.batches, batch_id,
                        [expires_at |-> env.now + BATCH_EXPIRY_NANOS])
        live(c) == Has(batches1, c.batch_id) /\ batches1[c.batch_id].expires_at >= env.now
        fresh(b) == b.expires_at >= env.now
    IN [s EXCEPT !.next_batch_id = batch_id + 1,
                 !.chunks = Retain(s.chunks, live),
                 !.batches = Retain(batches1, fresh)]

\* create_batch whose sweep removes the expired batches but not their chunks.
create_batch_keep_chunks(s, env) ==
    LET batch_id == s.next_batch_id
        batches1 == Put(s.batches, batch_id,
                        [expires_at |-> env.now + BATCH_EXPIRY_NANOS])
        fresh(b) == b.expires_at > env.now
    IN [s EXCEPT !.next_batch_id = batch_id + 1,
                 !.batches = Retain(batches1, fresh)]

\* Returns the state; the batch id handed out is the old s.next_batch_id.
create_batch(s, env) ==
    LET batch_id == s.next_batch_id
        batches1 == Put(s.batches, batch_id,
                        [expires_at |-> env.now + BATCH_EXPIRY_NANOS])
        live(c) == Has(batches1, c.batch_id) /\ batches1[c.batch_id].expires_at > env.now
        fresh(b) == b.expires_at > env.now
    IN [s EXCEPT !.next_batch_id = batch_id + 1,
                 !.chunks = Retain(s.chunks, live),
                 !.batches = Retain(batches1, fresh)]

\* create_chunk that takes an expired batch for a missing one.
create_chunk_live_only(s, arg, env) ==
    IF ~Has(s.batches, arg.batch_id) \/ s.batches[arg.batch_id].expires_at <= env.now
    THEN trap(s, "batch not found")
    ELSE IF arg.sha256 = ShortSha THEN trap(s, "invalid SHA-256")
    ELSE LET chunk_id == s.next_chunk_id
             sha256 == IF arg.sha256 = NoSha THEN hash_bytes(arg.content) ELSE arg.sha256
         IN [s EXCEPT !.batches[arg.batch_id].expires_at = env.now + BATCH_EXPIRY_NANOS,
                      !.next_chunk_id = chunk_id + 1,
                      !.chunks = Put(@, chunk_id,
                                     [batch_id |-> arg.batch_id, content |-> arg.content,
                                      sha256 |-> sha256])]

\* create_chunk that does not advance next_chunk_id.
create_chunk_same_id(s, arg, env) ==
    IF ~Has(s.batches, arg.batch_id) THEN trap(s, "batch not found")
    ELSE IF arg.sha256 = ShortSha THEN trap(s, "invalid SHA-256")
    ELSE LET chunk_id == s.next_chunk_id
             sha256 == IF arg.sha256 = NoSha THEN hash_bytes(arg.content) ELSE arg.sha256
         IN [s EXCEPT !.batches[arg.batch_id].expires_at = env.now + BATCH_EXPIRY_NANOS,
                      !.chunks = Put(@, chunk_id,
                                     [batch_id |-> arg.batch_id, content |-> arg.content,
                                      sha256 |-> sha256])]

\* arg: [batch_id, content, sha256]; the chunk id handed out is the old
\* s.next_chunk_id.
create_chunk(s, arg, env) ==
    IF ~Has(s.batches, arg.batch_id) THEN trap(s, "batch not found")
    ELSE IF arg.sha256 = ShortSha THEN trap(s, "invalid SHA-256")
    ELSE LET chunk_id == s.next_chunk_id
             sha256 == IF arg.sha256 = NoSha THEN hash_bytes(arg.content) ELSE arg.sha256
         IN [s EXCEPT !.batches[arg.batch_id].expires_at = env.now + BATCH_EXPIRY_NANOS,
                      !.next_chunk_id = chunk_id + 1,
                      !.chunks = Put(@, chunk_id,
                                     [batch_id |-> arg.batch_id, content |-> arg.content,
                                      sha256 |-> sha256])]

\* One BatchOperation, a record [op, arg].
apply_operation(s, operation, env) ==
    CASE operation.op = "CreateAsset" -> do_create_asset(s, operation.arg)
      [] operation.op = "SetAssetContent" -> do_set_asset_content(s, operation.arg, env)
      [] operation.op = "UnsetAssetContent" -> do_unset_asset_content(s, operation.arg, env)
      [] operation.op = "DeleteAsset" -> do_delete_asset(s, operation.arg)
      [] operation.op = "Clear" -> do_clear(s)

\* The loop of commit_batch taking the operations from the last to the first.
RECURSIVE apply_operations_last_first(_, _, _, _)
apply_operations_last_first(s, operations, i, env) ==
    IF i > Len(operations) \/ s.trapped THEN s
    ELSE apply_operations_last_first(
            apply_operation(s, operations[Len(operations) - i + 1], env),
            operations, i + 1, env)

\* The for loop of commit_batch from operation i on; a trap ends the message.
RECURSIVE apply_operations(_, _, _, _)
apply_operations(s, operations, i, env) ==
    IF i > Len(operations) \/ s.trapped THEN s
    ELSE apply_operations(apply_operation(s, operations[i], env), operations, i + 1, env)

\* arg: [batch_id, operations]
commit_batch(s, arg, env) ==
    LET s1 == apply_operations(s, arg.operations, 1, env)
    IN IF s1.trapped THEN s1 ELSE [s1 EXCEPT !.batches = Remove(@, arg.batch_id)]

-----------------------------------------------------------------------------
\* Authorization and persistence.

authorize(s, caller, other) ==
    IF is_authorized(s, caller) THEN [s EXCEPT !.authorized = Append(@, other)] ELSE s

pre_upgrade(s) == [authorized |-> s.authorized, stable_assets |-> s.assets]

\* The loop of post_upgrade over the assets still to visit.
RECURSIVE recertify(_, _, _)
recertify(s, keys, env) ==
    IF keys = {} THEN s
    ELSE LET key == CHOOSE k \in keys : TRUE
             encodings == s.assets[key].encodings
             s1 == [s EXCEPT !.assets[key].encodings =
                        [e \in DOMAIN encodings |-> [encodings[e] EXCEPT !.certified = FALSE]]]
         IN recertify(on_asset_change(s1, key, env), keys \ {key}, env)

\* post_upgrade runs in the fresh instance the upgrade installs: s is that
\* instance's state (empty thread-locals, the host's certified data kept).
post_upgrade(s, stable_state, env) ==
    LET s1 == [do_clear(s) EXCEPT !.authorized = stable_state.authorized,
                                  !.assets = stable_state.stable_assets]
    IN recertify(s1, DOMAIN s1.assets, env)

\* The thread-locals of a freshly installed instance.
FreshInstance(s) ==
    [s EXCEPT !.assets = EmptyMap, !.chunks = EmptyMap, !.batches = EmptyMap,
              !.next_chunk_id = 0, !.next_batch_id = 0, !.authorized = <<>>,
              !.asset_hashes = EmptyMap, !.chunk_hashes = EmptyMap]

upgrade(s, env) == post_upgrade(FreshInstance(s), pre_upgrade(s), env)

\* init(): do_clear, then the installer becomes the first authorized principal.
init(s, caller) == [do_clear(s) EXCEPT !.authorized = Append(@, caller)]

-----------------------------------------------------------------------------
\* HTTP resolver.  A query never changes the canister state; its result is a
\* response record, or a trap.

NoToken == [some |-> FALSE, key |-> "", content_encoding |-> "", index |-> 0,
            sha256 |-> NoSha]

NoHeader == [some |-> FALSE, tree |-> {}, chunk_tree |-> <<>>, chunk_index |-> 0]

ZeroRange == [start_byte |-> 0, end_byte |-> 0, index |-> 0, total |-> 0]

\* Option<Range>: None, or Some(Range) of which the resolver reads start_byte.
NoRange == [some |-> FALSE, start_byte |-> 0]

SomeRange(start_byte) == [some |-> TRUE, start_byte |-> start_byte]

\* What a query was called with; resp keeps it next to the response.
NoRequest == [path |-> "", accept |-> <<>>, range |-> NoRange, certificate |-> FALSE,
              token |-> NoToken]

NoResponse ==
    [trapped |-> FALSE, msg |-> "", method |-> "", request |-> NoRequest,
     status_code |-> 0, body |-> <<>>,
     content_type |-> "", content_encoding |-> "", certificate |-> NoHeader,
     content_range |-> ZeroRange, partial |-> FALSE, token |-> NoToken]

TrapResponse(m) == [NoResponse EXCEPT !.trapped = TRUE, !.msg = m]

\* create_token that hands out a token after the last chunk as well.
create_token_always(enc_name, enc, key, chunk_index) ==
    [some |-> TRUE, key |-> key, content_encoding |-> enc_name,
     index |-> chunk_index + 1, sha256 |-> enc.sha256]

create_token(enc_name, enc, key, chunk_index) ==
    IF chunk_index + 1 >= Len(enc.content_chunks) THEN NoToken
    ELSE [some |-> TRUE, key |-> key, content_encoding |-> enc_name,
          index |-> chunk_index + 1, sha256 |-> enc.sha256]

build_200(asset, enc_name, enc, key, chunk_index, certificate_header) ==
    IF chunk_index >= Len(enc.content_chunks) THEN TrapResponse("index out of bounds")
    ELSE [NoResponse EXCEPT
            !.status_code = 200,
            !.content_type = asset.content_type,
            !.content_encoding = IF enc_name # "identity" THEN enc_name ELSE "",
            !.certificate = certificate_header,
            !.body = enc.content_chunks[chunk_index + 1].content,
            !.token = create_token(enc_name, enc, key, chunk_index)]

build_206(asset, enc_name, enc, key, range, certificate_header) ==
    IF range.index >= Len(enc.content_chunks) THEN TrapResponse("index out of bounds")
    ELSE [NoResponse EXCEPT
            !.status_code = 206,
            !.content_type = asset.content_type,
            !.content_encoding = IF enc_name # "identity" THEN enc_name ELSE "",
            !.certificate = certificate_header,
            !.content_range = range,
            !.partial = TRUE,
            !.body = enc.content_chunks[range.index + 1].content,
            !.token = create_token(enc_name, enc, key, range.index)]

\* The bytes of "not found".
NotFoundBody == <<0 - 404>>

build_404(certificate_header) ==
    [NoResponse EXCEPT !.status_code = 404, !.certificate = certificate_header,
                       !.body = NotFoundBody]

\* Whether the resolver may answer with enc_name: the asset has it, and it or
\* the identity encoding is certified.
Servable(asset, enc_name) ==
    /\ Has(asset.encodings, enc_name)
    /\ \/ asset.encodings[enc_name].certified
       \/ /\ Has(asset.encodings, "identity")
          /\ asset.encodings["identity"].certified

\* Iterator::find over a sequence: the first position from i on whose element
\* satisfies p, 0 if none.
RECURSIVE Find(_, _, _)
Find(seq, p(_), i) ==
    IF i > Len(seq) THEN 0 ELSE IF p(seq[i]) THEN i ELSE Find(seq, p, i + 1)

\* position() of get_chunk_index_by_range from chunk i on: the index (from 0)
\* of the first chunk with start_byte - chunk.start_byte < len, -1 if none,
\* -2 if the unsigned subtraction panics under overflow checks (without them
\* it wraps to a value no chunk length exceeds).
RECURSIVE ChunkPosition(_, _, _, _)
ChunkPosition(content_chunks, start_byte, i, env) ==
    IF i > Len(content_chunks) THEN 0 - 1
    ELSE LET chunk == content_chunks[i]
         IN IF start_byte < chunk.start_byte
            THEN IF env.overflow_checks THEN 0 - 2
                 ELSE ChunkPosition(content_chunks, start_byte, i + 1, env)
            ELSE IF start_byte - chunk.start_byte < Len(chunk.content) THEN i - 1
            ELSE ChunkPosition(content_chunks, start_byte, i + 1, env)

\* Returns a ContentRange, with index = -2 standing for a panic.
get_chunk_index_by_range(range, encodings, has_asset, asset, env) ==
    IF ~range.some \/ ~has_asset THEN ZeroRange
    ELSE LET servable(enc_name) == Servable(asset, enc_name)
             found == Find(encodings, servable, 1)
             name == IF found = 0 THEN "" ELSE encodings[found]
         IN IF ~Has(asset.encodings, name) THEN ZeroRange
            ELSE LET enc == asset.encodings[name]
                     index == ChunkPosition(enc.content_chunks, range.start_byte, 1, env)
                 IN IF index = 0 - 2 THEN [ZeroRange EXCEPT !.index = 0 - 2]
                    ELSE IF index >= 0
                    THEN LET chunk == enc.content_chunks[index + 1]
                         IN [start_byte |-> chunk.start_byte,
                             end_byte |-> IF chunk.start_byte + Len(chunk.content) = 0
                                          THEN AllOnes
                                          ELSE chunk.start_byte + Len(chunk.content) - 1,
                             index |-> index,
                             total |-> enc.total_length]
                    ELSE IF Len(enc.content_chunks) > 0
                    THEN [start_byte |-> enc.content_chunks[1].start_byte,
                          end_byte |-> enc.content_chunks[1].end_byte,
                          index |-> 0,
                          total |-> enc.total_length]
                    ELSE ZeroRange

\* The serialized witness of chunk `index` in the chunk-hash tree of key: the
\* leaf it proves, <<>> for String::new().  trapped when key has no tree.
get_serialized_chunk_witness(s, key, index) ==
    IF ~Has(s.chunk_hashes, key)
    THEN [trapped |-> TRUE, witness |-> <<>>]
    ELSE IF Has(s.chunk_hashes[key], index)
         THEN [trapped |-> FALSE, witness |-> <<index>> \o s.chunk_hashes[key][index]]
         ELSE [trapped |-> FALSE, witness |-> <<>>]

\* witness is the set of paths whose presence or absence the asset-hash tree
\* witness proves.
witness_to_header(witness, chunk_serialized_tree, chunk_index) ==
    [some |-> TRUE, tree |-> witness, chunk_tree |-> chunk_serialized_tree,
     chunk_index |-> chunk_index]

\* The certificate header of a response about `path`, or the trap that
\* building it ends in.  env.certificate is whether data_certificate() is Some.
CertificateHeader(s, path, witness, chunk_index, env) ==
    LET chunk_tree == get_serialized_chunk_witness(s, path, chunk_index)
    IN IF chunk_tree.trapped
       THEN [trapped |-> TRUE, msg |-> "asset not found in chunks map", header |-> NoHeader]
       ELSE IF ~env.certificate
       THEN [trapped |-> TRUE, msg |-> "no data certificate available", header |-> NoHeader]
       ELSE [trapped |-> FALSE, msg |-> "",
             header |-> witness_to_header(witness, chunk_tree.witness, chunk_index)]

\* Direct resolution that answers with certified encodings only.
DirectResponse_certified_only(s, path, encodings, range, env) ==
    LET has_asset == Has(s.assets, path)
        asset == IF has_asset THEN s.assets[path] ELSE DefaultAsset
        certified(enc_name) == /\ Has(asset.encodings, enc_name)
                               /\ asset.encodings[enc_name].certified
        content_range == get_chunk_index_by_range(range, encodings, has_asset, asset, env)
        cert == CertificateHeader(s, path, {path}, content_range.index, env)
        found == IF has_asset THEN Find(encodings, certified, 1) ELSE 0
    IN IF content_range.index < 0 THEN TrapResponse("attempt to subtract with overflow")
       ELSE IF cert.trapped THEN TrapResponse(cert.msg)
       ELSE IF found = 0 THEN build_404(cert.header)
       ELSE LET enc_name == encodings[found]
                enc == asset.encodings[enc_name]
            IN IF range.some
               THEN build_206(asset, enc_name, enc, path, content_range, cert.header)
               ELSE build_200(asset, enc_name, enc, path, content_range.index, cert.header)

\* The second half of build_http_response: direct resolution of path.
DirectResponse(s, path, encodings, range, env) ==
    LET has_asset == Has(s.assets, path)
        asset == IF has_asset THEN s.assets[path] ELSE DefaultAsset
        content_range == get_chunk_index_by_range(range, encodings, has_asset, asset, env)
        cert == CertificateHeader(s, path, {path}, content_range.index, env)
        servable(enc_name) == Servable(asset, enc_name)
        found == IF has_asset THEN Find(encodings, servable, 1) ELSE 0
    IN IF content_range.index < 0 THEN TrapResponse("attempt to subtract with overflow")
       ELSE IF cert.trapped THEN TrapResponse(cert.msg)
       ELSE IF found = 0 THEN build_404(cert.header)
       ELSE LET enc_name == encodings[found]
                enc == asset.encodings[enc_name]
            IN IF range.some
               THEN build_206(asset, enc_name, enc, path, content_range, cert.header)
               ELSE build_200(asset, enc_name, enc, path, content_range.index, cert.header)

build_http_response(s, path, encodings, range, env) ==
    LET has_index == Has(s.assets, INDEX_FILE)
        index_asset == IF has_index THEN s.assets[INDEX_FILE] ELSE DefaultAsset
        content_range ==
            get_chunk_index_by_range(range, encodings, has_index, index_asset, env)
        redirect == ~Has(s.asset_hashes, path) /\ Has(s.asset_hashes, INDEX_FILE)
        cert == CertificateHeader(s, path, {path, INDEX_FILE}, content_range.index, env)
        certified(enc_name) == /\ Has(index_asset.encodings, enc_name)
                               /\ index_asset.encodings[enc_name].certified
        found == IF has_index THEN Find(encodings, certified, 1) ELSE 0
    IN IF content_range.index < 0 THEN TrapResponse("attempt to subtract with overflow")
       ELSE IF redirect /\ cert.trapped THEN TrapResponse(cert.msg)
       ELSE IF redirect /\ found # 0
       THEN LET enc_name == encodings[found]
                enc == index_asset.encodings[enc_name]
            IN IF range.some
               THEN build_206(index_asset, enc_name, enc, path, content_range, cert.header)
               ELSE build_200(index_asset, enc_name, enc, INDEX_FILE,
                              content_range.index, cert.header)
       ELSE DirectResponse(s, path, encodings, range, env)

\* http_request after the headers and the url are parsed: accept is the
\* Accept-Encoding list, to which the handler appends "identity".
http_request(s, path, accept, range, env) ==
    [build_http_response(s, path, Append(accept, "identity"), range, env)
        EXCEPT !.method = "http_request",
               !.request = [path |-> path, accept |-> accept, range |-> range,
                            certificate |-> env.certificate, token |-> NoToken]]

\* Bytes are their ASCII codes.
Percent == 37

Plus == 43

Space == 32

\* char::to_digit(16) of a byte: the value of the hex digit, -1 for None.
to_digit(b) ==
    IF b >= 48 /\ b <= 57 THEN b - 48
    ELSE IF b >= 65 /\ b <= 70 THEN b - 55
    ELSE IF b >= 97 /\ b <= 102 THEN b - 87
    ELSE 0 - 1

\* convert_percent that knows no %% escape.
convert_percent_hex_only(iter) ==
    IF Len(iter) < 2 \/ to_digit(iter[1]) < 0 \/ to_digit(iter[2]) < 0
    THEN [some |-> FALSE, byte |-> 0, rest |-> iter]
    ELSE [some |-> TRUE, byte |-> to_digit(iter[1]) * 16 + to_digit(iter[2]),
          rest |-> SubSeq(iter, 3, Len(iter))]

\* convert_percent on the bytes after a %: the byte decoded and the bytes
\* left, or none with the iterator where it was.
convert_percent(iter) ==
    IF iter = <<>> THEN [some |-> FALSE, byte |-> 0, rest |-> iter]
    ELSE IF Head(iter) = Percent
    THEN [some |-> TRUE, byte |-> Percent, rest |-> Tail(iter)]
    ELSE IF to_digit(iter[1]) < 0 \/ Len(iter) < 2
    THEN [some |-> FALSE, byte |-> 0, rest |-> iter]
    ELSE IF to_digit(iter[2]) < 0
    THEN [some |-> FALSE, byte |-> 0, rest |-> iter]
    ELSE [some |-> TRUE, byte |-> to_digit(iter[1]) * 16 + to_digit(iter[2]),
          rest |-> SubSeq(iter, 3, Len(iter))]

\* url_decode: collect() of the UrlDecode iterator into a Result; chars are
\* the code points of the decoded string.
RECURSIVE url_decode(_)
url_decode(url) ==
    IF url = <<>> THEN [ok |-> TRUE, chars |-> <<>>]
    ELSE LET b == Head(url)
             item == IF b = Percent THEN convert_percent(Tail(url))
                     ELSE IF b = Plus
                     THEN [some |-> TRUE, byte |-> Space, rest |-> Tail(url)]
                     ELSE [some |-> TRUE, byte |-> b, rest |-> Tail(url)]
         IN IF ~item.some THEN [ok |-> FALSE, chars |-> <<>>]
            ELSE LET rest == url_decode(item.rest)
                 IN IF rest.ok THEN [ok |-> TRUE, chars |-> <<item.byte>> \o rest.chars]
                    ELSE rest

\* The path decoding of http_request on its own: 400 when url_decode fails,
\* else the decoded path in body.
decode_path(url) ==
    LET decoded == url_decode(url)
        response == IF decoded.ok THEN [NoResponse EXCEPT !.body = decoded.chars]
                    ELSE [NoResponse EXCEPT !.status_code = 400,
                                            !.msg = "invalid percent encoding"]
    IN [response EXCEPT !.method = "url_decode", !.request.path = url]

\* A header value is a sequence of characters; "bytes=" counts as one.
\* str::split: the pieces of str between the separators, one more than there
\* are separators.
RECURSIVE Split(_, _)
Split(str, sep) ==
    IF \A i \in DOMAIN str : str[i] # sep THEN <<str>>
    ELSE LET i == CHOOSE j \in DOMAIN str :
                     str[j] = sep /\ \A k \in 1..(j - 1) : str[k] # sep
         IN <<SubSeq(str, 1, i - 1)>> \o Split(SubSeq(str, i + 1, Len(str)), sep)

\* str::replace(pat, ""): every occurrence of pat is removed.
RECURSIVE Remove_all(_, _)
Remove_all(str, pat) ==
    IF str = <<>> THEN <<>>
    ELSE IF Head(str) = pat THEN Remove_all(Tail(str), pat)
    ELSE <<Head(str)>> \o Remove_all(Tail(str), pat)

\* str::trim: leading and trailing spaces are dropped.
RECURSIVE trim(_)
trim(str) ==
    IF str = <<>> THEN <<>>
    ELSE IF Head(str) = " " THEN trim(Tail(str))
    ELSE IF str[Len(str)] = " " THEN trim(SubSeq(str, 1, Len(str) - 1))
    ELSE str

\* The value of a string of decimal digits (the model's digits are "1").
RECURSIVE DecimalValue(_)
DecimalValue(digits) ==
    IF digits = <<>> THEN 0
    ELSE 10 * DecimalValue(SubSeq(digits, 1, Len(digits) - 1)) + 1

\* str::parse::<u64>: an optional + and at least one digit.
parse_u64(str) ==
    LET digits == IF str # <<>> /\ Head(str) = "+" THEN Tail(str) ELSE str
    IN IF digits # <<>> /\ \A i \in DOMAIN digits : digits[i] = "1"
       THEN [ok |-> TRUE, value |-> DecimalValue(digits)]
       ELSE [ok |-> FALSE, value |-> 0]

NoEnd == [some |-> FALSE, value |-> 0]

\* The closure of get_ranges on one element of the header.
parse_range(range_string) ==
    LET split == Split(Remove_all(range_string, "bytes="), "-")
        bytes_string == [i \in DOMAIN split |-> trim(split[i])]
    IN IF Len(bytes_string) < 2 THEN [some |-> FALSE, start_byte |-> 0, end_byte |-> NoEnd]
       ELSE LET start_byte == parse_u64(bytes_string[1])
                end_byte == parse_u64(bytes_string[2])
            IN IF ~start_byte.ok
               THEN [some |-> FALSE, start_byte |-> 0, end_byte |-> NoEnd]
               ELSE [some |-> TRUE, start_byte |-> start_byte.value,
                     end_byte |-> IF end_byte.ok
                                  THEN [some |-> TRUE, value |-> end_byte.value]
                                  ELSE NoEnd]

\* get_ranges that leaves a failed element out of the list.
get_ranges_lenient(range_header_value) ==
    LET range_strings == Split(range_header_value, ",")
        parsed == [i \in DOMAIN range_strings |-> parse_range(range_strings[i])]
        good == {i \in DOMAIN parsed : parsed[i].some}
        RECURSIVE Collect(_)
        Collect(i) == IF i > Len(parsed) THEN <<>>
                      ELSE IF i \in good THEN <<parsed[i]>> \o Collect(i + 1)
                      ELSE Collect(i + 1)
    IN [some |-> good # {}, ranges |-> Collect(1)]

\* get_ranges: collect() into an Option, None as soon as one element is None.
get_ranges(range_header_value) ==
    LET range_strings == Split(range_header_value, ",")
        parsed == [i \in DOMAIN range_strings |-> parse_range(range_strings[i])]
    IN IF \E i \in DOMAIN parsed : ~parsed[i].some
       THEN [some |-> FALSE, ranges |-> <<>>]
       ELSE [some |-> TRUE, ranges |-> parsed]

\* The Range header parsing of http_request on its own: the range the
\* handler goes on with is the first of the list, or none.
parse_range_header(range_header_value) ==
    LET ranges == get_ranges(range_header_value)
    IN [NoResponse EXCEPT
          !.method = "get_ranges",
          !.request.range = IF ranges.some THEN SomeRange(ranges.ranges[1].start_byte)
                            ELSE NoRange]
       @@ [header |-> range_header_value, ranges |-> ranges]

\* get(key, accept_encodings): the first accepted encoding the asset has.
RECURSIVE get(_, _, _)
get(s, key, accept_encodings) ==
    IF ~Has(s.assets, key) THEN [trapped |-> TRUE, reason |-> "asset not found"]
    ELSE IF accept_encodings = <<>> THEN [trapped |-> TRUE, reason |-> "no such encoding"]
    ELSE LET enc == Head(accept_encodings)
             asset == s.assets[key]
         IN IF ~Has(asset.encodings, enc) THEN get(s, key, Tail(accept_encodings))
            ELSE IF Len(asset.encodings[enc].content_chunks) = 0
            THEN [trapped |-> TRUE, reason |-> "index out of bounds"]
            ELSE [trapped |-> FALSE,
                  content |-> asset.encodings[enc].content_chunks[1].content,
                  content_type |-> asset.content_type,
                  content_encoding |-> enc,
                  total_length |-> asset.encodings[enc].total_length,
                  sha256 |-> asset.encodings[enc].sha256]

\* get_chunk(key, content_encoding, index, sha256): index counts from 0.
get_chunk(s, arg) ==
    IF ~Has(s.assets, arg.key) THEN [trapped |-> TRUE, reason |-> "asset not found"]
    ELSE IF ~Has(s.assets[arg.key].encodings, arg.content_encoding)
    THEN [trapped |-> TRUE, reason |-> "no such encoding"]
    ELSE LET enc == s.assets[arg.key].encodings[arg.content_encoding]
         IN IF arg.sha256 # NoSha /\ arg.sha256 # enc.sha256
            THEN [trapped |-> TRUE, reason |-> "sha256 mismatch"]
            ELSE IF arg.index >= Len(enc.content_chunks)
            THEN [trapped |-> TRUE, reason |-> "chunk index out of bounds"]
            ELSE [trapped |-> FALSE, content |-> enc.content_chunks[arg.index + 1].content]

\* list(): the details of every asset.  The code returns them in the
\* iteration order of the hash map, which the model leaves out: the result is
\* the set of the entries.  The encodings of an entry are sorted by name, so
\* they are determined by the map from name to details.
list(s) ==
    {[key |-> key,
      content_type |-> s.assets[key].content_type,
      encodings |-> [e \in DOMAIN s.assets[key].encodings |->
                       [content_encoding |-> e,
                        sha256 |-> s.assets[key].encodings[e].sha256,
                        length |-> s.assets[key].encodings[e].total_length,
                        modified |-> s.assets[key].encodings[e].modified]]]
       : key \in DOMAIN s.assets}

\* http_request_streaming_callback that does not compare the digest of the
\* token with the one of the encoding.
http_request_streaming_callback_any_sha(s, token) ==
    LET response ==
          IF ~Has(s.assets, token.key)
          THEN TrapResponse("Invalid token on streaming: key not found.")
          ELSE IF ~Has(s.assets[token.key].encodings, token.content_encoding)
          THEN TrapResponse("Invalid token on streaming: encoding not found.")
          ELSE LET enc == s.assets[token.key].encodings[token.content_encoding]
                   chunk_tree == get_serialized_chunk_witness(s, token.key, token.index)
               IN IF chunk_tree.trapped
                  THEN TrapResponse("asset not found in chunks map")
                  ELSE IF token.index >= Len(enc.content_chunks)
                  THEN TrapResponse("index out of bounds")
                  ELSE [NoResponse EXCEPT
                          !.body = enc.content_chunks[token.index + 1].content,
                          !.token = create_token(token.content_encoding, enc,
                                                 token.key, token.index),
                          !.certificate = [NoHeader EXCEPT
                                             !.chunk_tree = chunk_tree.witness,
                                             !.chunk_index = token.index]]
    IN [response EXCEPT !.method = "http_request_streaming_callback",
                        !.request.token = token]

\* http_request_streaming_callback(token): the response carries the chunk in
\* body, the next token in token and the chunk witness in certificate.
http_request_streaming_callback(s, token) ==
    LET response ==
          IF ~Has(s.assets, token.key)
          THEN TrapResponse("Invalid token on streaming: key not found.")
          ELSE IF ~Has(s.assets[token.key].encodings, token.content_encoding)
          THEN TrapResponse("Invalid token on streaming: encoding not found.")
          ELSE LET enc == s.assets[token.key].encodings[token.content_encoding]
                   chunk_tree == get_serialized_chunk_witness(s, token.key, token.index)
               IN IF token.sha256 # NoSha /\ token.sha256 # enc.sha256
                  THEN TrapResponse("sha256 mismatch")
                  ELSE IF chunk_tree.trapped
                  THEN TrapResponse("asset not found in chunks map")
                  ELSE IF token.index >= Len(enc.content_chunks)
                  THEN TrapResponse("index out of bounds")
                  ELSE [NoResponse EXCEPT
                          !.body = enc.content_chunks[token.index + 1].content,
                          !.token = create_token(token.content_encoding, enc,
                                                 token.key, token.index),
                          !.certificate = [NoHeader EXCEPT
                                             !.chunk_tree = chunk_tree.witness,
                                             !.chunk_index = token.index]]
    IN [response EXCEPT !.method = "http_request_streaming_callback",
                        !.request.token = token]

\* retrieve(key): the response carries the bytes in body.
retrieve(s, key) ==
    LET response ==
          IF ~Has(s.assets, key) THEN TrapResponse("asset not found")
          ELSE IF ~Has(s.assets[key].encodings, "identity")
          THEN TrapResponse("no identity encoding")
          ELSE LET id_enc == s.assets[key].encodings["identity"]
               IN IF Len(id_enc.content_chunks) > 1
                  THEN TrapResponse("Asset too large. Use get() and get_chunk() instead.")
                  ELSE IF Len(id_enc.content_chunks) = 0
                  THEN TrapResponse("index out of bounds")
                  ELSE [NoResponse EXCEPT !.body = id_enc.content_chunks[1].content]
    IN [response EXCEPT !.method = "retrieve", !.request.path = key]

-----------------------------------------------------------------------------
\* Messages.  The host runs one handler at a time; when the handler traps, or
\* its guard rejects the caller, the canister state stays as it was.

\* A host that keeps the changes of a handler that trapped.
rollback_none(s0, r) == r

\* The state the host keeps after a handler that started in s0 ended in r.
rollback(s0, r) == IF r.trapped THEN s0 ELSE r

\* A guard that lets every caller through.
guard_open(s, caller, r) == r

\* #[update(guard = "is_authorized")]: the handler result r counts only for an
\* authorized caller.
guard(s, caller, r) ==
    IF is_authorized(s, caller) THEN r ELSE trap(s, "Caller is not authorized")

Install(s) ==
    /\ assets' = s.assets
    /\ chunks' = s.chunks
    /\ next_chunk_id' = s.next_chunk_id
    /\ batches' = s.batches
    /\ next_batch_id' = s.next_batch_id
    /\ authorized' = s.authorized
    /\ asset_hashes' = s.asset_hashes
    /\ chunk_hashes' = s.chunk_hashes
    /\ certified_data' = s.certified_data

\* An update call whose handler ended in r.  resp holds the response of the
\* latest message when that was a query, and NoResponse otherwise.
Update(r) ==
    /\ Install(rollback(Current, r))
    /\ resp' = NoResponse
    /\ UNCHANGED <<now, upgrades>>

\* A query call: the state stays, resp records the response.
Query(response) ==
    /\ resp' = response
    /\ UNCHANGED <<canister, now, upgrades>>

Env(hm, overflow_checks, certificate) ==
    [now |-> now, hm |-> hm, overflow_checks |-> overflow_checks,
     certificate |-> certificate, usize_max |-> Usize32Max]

\* env for a build whose usize has 64 bits.
Native(env) == [env EXCEPT !.usize_max = AllOnes]

Authorize(caller, other) ==
    /\ Len(authorized) < MaxAuthorized
    /\ Update(authorize(Current, caller, other))

Store(caller, arg, env) ==
    Update(guard(Current, caller, store(Current, arg, env)))

CreateBatch(caller, env) ==
    Update(guard(Current, caller, create_batch(Current, env)))

CreateChunk(caller, arg, env) ==
    Update(guard(Current, caller, create_chunk(Current, arg, env)))

CreateAsset(caller, arg) ==
    Update(guard(Current, caller, do_create_asset(Current, arg)))

SetAssetContent(caller, arg, env) ==
    Update(guard(Current, caller, do_set_asset_content(Current, arg, env)))

UnsetAssetContent(caller, arg, env) ==
    Update(guard(Current, caller, do_unset_asset_content(Current, arg, env)))

DeleteContent(caller, arg) ==
    Update(guard(Current, caller, do_delete_asset(Current, arg)))

Clear(caller) ==
    Update(guard(Current, caller, do_clear(Current)))

CommitBatch(caller, arg, env) ==
    Update(guard(Current, caller, commit_batch(Current, arg, env)))

\* A canister upgrade: pre_upgrade, then post_upgrade in the new instance.
Upgrade(env) ==
    /\ upgrades < MaxUpgrades
    /\ Install(rollback(Current, upgrade(Current, env)))
    /\ upgrades' = upgrades + 1
    /\ resp' = NoResponse
    /\ UNCHANGED now

Retrieve(key) ==
    Query(retrieve(Current, key))

DecodePath(url) == Query(decode_path(url))

ParseRangeHeader(range_header_value) == Query(parse_range_header(range_header_value))

\* The client follows a stream: it calls back with the token of the latest
\* response.
StreamingCallback ==
    /\ resp.token.some
    /\ Query(http_request_streaming_callback(Current, resp.token))

\* A callback with a token of the caller's choosing, such as one kept from
\* an earlier stream.
Callback(token) == Query(http_request_streaming_callback(Current, token))

HttpRequest(path, accept, range, env) ==
    Query(http_request(Current, path, accept, range, env))

\* The host clock advances between messages.
Tick ==
    /\ now < MaxTime
    /\ now' = now + 1
    /\ resp' = NoResponse
    /\ UNCHANGED <<canister, upgrades>>

-----------------------------------------------------------------------------
\* The state after init() by the principal "owner" at time 0.
Init ==
    /\ assets = EmptyMap
    /\ chunks = EmptyMap
    /\ next_chunk_id = 1
    /\ batches = EmptyMap
    /\ next_batch_id = 1
    /\ authorized = <<"owner">>
    /\ asset_hashes = EmptyMap
    /\ chunk_hashes = EmptyMap
    /\ certified_data = NoCertifiedData
    /\ now = 0
    /\ resp = NoResponse
    /\ upgrades = 0

Callers == {"owner", "stranger"}

ContentTypes == {"text/html", "text/plain"}

\* Inputs of the specification Spec: one asset key, the two most preferred
\* encodings and one encoding that is not in ENCODING_CERTIFICATION_ORDER.
\* store uploads identity and zstd encodings, set_asset_content gzip ones.
Keys == {"/a"}

EncodingNames == {"identity", "gzip", "zstd"}

Contents == {<<1>>, <<2, 2>>}

HashOrders == {<<"zstd", "gzip", "identity">>}

ChunkIds == 1..MaxChunkId

BatchIds == 1..MaxBatchId

ChunkIdLists == {<<>>, <<1>>, <<1, 2>>, <<1, 1>>}

StoreArgs ==
    [key : Keys, content_type : {"text/html"}, content_encoding : {"identity", "zstd"},
     content : Contents, sha256 : {NoSha, RawSha}]

CreateChunkArgs ==
    [batch_id : BatchIds, content : Contents, sha256 : {NoSha, ShortSha}]

SetAssetContentArgs ==
    [key : Keys, content_encoding : {"gzip"}, chunk_ids : ChunkIdLists,
     sha256 : {NoSha, RawSha, ShortSha}]

\* The operations commit_batch is called with.
BatchOperations ==
    [op : {"CreateAsset"}, arg : [key : Keys, content_type : ContentTypes]]
    \cup [op : {"SetAssetContent"},
          arg : [key : Keys, content_encoding : {"gzip"},
                 chunk_ids : {<<1>>, <<1, 2>>}, sha256 : {NoSha}]]
    \cup [op : {"UnsetAssetContent"}, arg : [key : Keys, content_encoding : {"identity"}]]
    \cup [op : {"DeleteAsset"}, arg : [key : Keys]]
    \cup [op : {"Clear"}, arg : {[key |-> ""]}]

OperationLists == UNION {[1..n -> BatchOperations] : n \in 0..MaxOps}

\* The arguments a caller is tried with: every one of S for the owner; one
\* for a caller whom the guard rejects before the handler reads its argument.
ArgsOf(caller, S) == IF caller = "owner" THEN S ELSE {CHOOSE x \in S : TRUE}

Next ==
    \/ \E caller \in Callers : \E arg \in ArgsOf(caller, StoreArgs), hm \in HashOrders :
          Store(caller, arg, Env(hm, FALSE, TRUE))
    \/ \E caller \in Callers :
          next_batch_id <= MaxBatchId /\ CreateBatch(caller, Env(<<>>, FALSE, TRUE))
    \/ \E caller \in Callers : \E arg \in ArgsOf(caller, CreateChunkArgs) :
          next_chunk_id <= MaxChunkId /\ CreateChunk(caller, arg, Env(<<>>, FALSE, TRUE))
    \/ \E caller \in Callers :
          \E arg \in ArgsOf(caller, [key : Keys, content_type : ContentTypes]) :
             CreateAsset(caller, arg)
    \/ \E caller \in Callers :
          \E arg \in ArgsOf(caller, SetAssetContentArgs), hm \in HashOrders :
             SetAssetContent(caller, arg, Env(hm, FALSE, TRUE))
    \/ \E caller \in Callers :
          \E arg \in ArgsOf(caller, [key : Keys, content_encoding : EncodingNames]),
             hm \in HashOrders :
             UnsetAssetContent(caller, arg, Env(hm, FALSE, TRUE))
    \/ \E caller \in Callers, arg \in [key : Keys] : DeleteContent(caller, arg)
    \/ \E caller \in Callers : Clear(caller)
    \/ \E caller \in Callers :
          \E arg \in ArgsOf(caller, [batch_id : BatchIds, operations : OperationLists]),
             hm \in HashOrders :
             CommitBatch(caller, arg, Env(hm, FALSE, TRUE))
    \/ \E hm \in HashOrders : Upgrade(Env(hm, FALSE, TRUE))

Spec == Init /\ [][Next]_vars

-----------------------------------------------------------------------------
\* SpecBatch: the upload engine under a running clock.  Batches are created,
\* filled, committed and swept while time passes; the commits carry no asset
\* operations.
BatchIdCap == 3

BatchEnv == Env(<<>>, FALSE, TRUE)

BatchChunkArgs == [batch_id : 1..BatchIdCap, content : {<<1>>}, sha256 : {NoSha}]

BatchCommitArgs ==
    [batch_id : 1..BatchIdCap, operations : {<<>>, <<[op |-> "Clear", arg |-> [key |-> ""]]>>}]

NextBatch ==
    \/ \E caller \in Callers :
          next_batch_id <= BatchIdCap /\ CreateBatch(caller, BatchEnv)
    \/ \E caller \in Callers : \E arg \in ArgsOf(caller, BatchChunkArgs) :
          next_chunk_id <= MaxChunkId /\ CreateChunk(caller, arg, BatchEnv)
    \/ \E caller \in Callers : \E arg \in ArgsOf(caller, BatchCommitArgs) :
          CommitBatch(caller, arg, BatchEnv)
    \/ \E caller \in Callers : Clear(caller)
    \/ Tick

SpecBatch == Init /\ [][NextBatch]_vars

-----------------------------------------------------------------------------
\* SpecHttp: the resolver.  Two paths, the index file and one other, are
\* stored with identity and gzip encodings of one chunk, deleted and cleared,
\* and requested with and without Accept-Encoding and Range headers.
Paths == {INDEX_FILE, "/a"}

HttpEnv(certificate) == Env(<<"identity", "gzip">>, FALSE, certificate)

HttpStoreArgs ==
    [key : Paths, content_type : {"text/html"}, content_encoding : {"identity", "gzip"},
     content : Contents, sha256 : {NoSha}]

Ranges == {NoRange, SomeRange(0), SomeRange(1)}

NextHttp ==
    \/ \E caller \in Callers : \E arg \in ArgsOf(caller, HttpStoreArgs) :
          Store(caller, arg, HttpEnv(TRUE))
    \/ \E caller \in Callers, arg \in [key : Paths] : DeleteContent(caller, arg)
    \/ \E caller \in Callers : Clear(caller)
    \/ \E path \in Paths, accept \in {<<>>, <<"gzip">>}, range \in Ranges,
          certificate \in BOOLEAN :
          HttpRequest(path, accept, range, HttpEnv(certificate))

SpecHttp == Init /\ [][NextHttp]_vars

-----------------------------------------------------------------------------
\* SpecContent: the content of one asset.  store writes one-chunk encodings,
\* of the empty content too; batches stage chunks that set_asset_content
\* assembles into encodings of one or two chunks; retrieve reads the identity
\* encoding.  The build panics on integer overflow or wraps, and its usize
\* has 32 or 64 bits.
ContentBytes == {<<>>, <<1>>}

ContentEnvs ==
    {Env(<<"identity", "gzip">>, overflow_checks, TRUE) : overflow_checks \in BOOLEAN}
    \cup {Native(Env(<<"identity", "gzip">>, FALSE, TRUE))}

ContentStoreArgs ==
    {[key |-> "/a", content_type |-> "text/html", content_encoding |-> e,
      content |-> c, sha256 |-> h] :
        e \in {"identity", "gzip"}, c \in ContentBytes,
        h \in {NoSha, RawSha, hash_bytes(<<1>>)}}

ContentChunkArgs == [batch_id : BatchIds, content : ContentBytes, sha256 : {NoSha}]

ContentSetArgs ==
    [key : Keys, content_encoding : {"identity", "gzip"},
     chunk_ids : {<<1>>, <<1, 2>>, <<2, 1>>}, sha256 : {NoSha, RawSha}]

NextContent ==
    \/ \E caller \in Callers : \E arg \in ArgsOf(caller, ContentStoreArgs), env \in ContentEnvs :
          Store(caller, arg, env)
    \/ \E caller \in Callers :
          next_batch_id <= MaxBatchId /\ CreateBatch(caller, BatchEnv)
    \/ \E caller \in Callers : \E arg \in ArgsOf(caller, ContentChunkArgs) :
          next_chunk_id <= MaxChunkId /\ CreateChunk(caller, arg, BatchEnv)
    \/ \E caller \in Callers : \E arg \in ArgsOf(caller, ContentSetArgs), env \in ContentEnvs :
          SetAssetContent(caller, arg, env)
    \/ \E caller \in Callers :
          \E arg \in ArgsOf(caller, [key : Keys, content_encoding : {"identity", "gzip"}]) :
             UnsetAssetContent(caller, arg, BatchEnv)
    \/ \E caller \in Callers : Clear(caller)
    \/ \E key \in Keys : Retrieve(key)

SpecContent == Init /\ [][NextContent]_vars

-----------------------------------------------------------------------------
\* SpecStream: streaming.  One batch stages up to StreamChunks chunks, which
\* set_asset_content assembles into encodings of one to three chunks; a
\* client requests the asset and follows the stream by calling back with each
\* token it receives (it starts no new request while it holds a token), and
\* does so eventually; any update or an upgrade may come in between.
StreamChunks == 3

StreamEnv == Env(<<"identity", "gzip">>, FALSE, TRUE)

StreamChunkArgs == [batch_id : BatchIds, content : Contents, sha256 : {NoSha}]

StreamSetArgs ==
    [key : Keys, content_encoding : {"identity", "gzip"},
     chunk_ids : {<<1>>, <<1, 2>>, <<1, 2, 3>>}, sha256 : {NoSha, RawSha}]

StreamUnsetArgs == [key : Keys, content_encoding : {"identity", "gzip"}]

StreamStoreArgs ==
    [key : Keys, content_type : {"text/html"}, content_encoding : {"identity"},
     content : {<<1>>}, sha256 : {NoSha}]

NextStream ==
    \/ \E caller \in Callers :
          next_batch_id <= MaxBatchId /\ CreateBatch(caller, StreamEnv)
    \/ \E caller \in Callers : \E arg \in ArgsOf(caller, StreamChunkArgs) :
          next_chunk_id <= StreamChunks /\ CreateChunk(caller, arg, StreamEnv)
    \/ \E caller \in Callers : \E arg \in ArgsOf(caller, StreamSetArgs) :
          SetAssetContent(caller, arg, StreamEnv)
    \/ \E caller \in Callers : \E arg \in ArgsOf(caller, StreamStoreArgs) :
          Store(caller, arg, StreamEnv)
    \/ \E caller \in Callers : \E arg \in ArgsOf(caller, StreamUnsetArgs) :
          UnsetAssetContent(caller, arg, StreamEnv)
    \/ \E caller \in Callers, arg \in [key : Keys] : DeleteContent(caller, arg)
    \/ Upgrade(StreamEnv)
    \/ \E path \in Keys, accept \in {<<>>, <<"gzip">>}, range \in {NoRange, SomeRange(1)} :
          ~resp.token.some /\ HttpRequest(path, accept, range, StreamEnv)
    \/ StreamingCallback

SpecStream == Init /\ [][NextStream]_vars /\ WF_vars(StreamingCallback)

-----------------------------------------------------------------------------
\* SpecUrl: url_decode on every byte string of at most MaxUrlLen bytes over
\* %, +, the hex digits 2 and e, and @ (neither a hex digit nor special).
MaxUrlLen == 4

UrlBytes == {Percent, Plus, 50, 101, 64}

Urls == UNION {[1..n -> UrlBytes] : n \in 0..MaxUrlLen}

NextUrl == \E url \in Urls : DecodePath(url)

SpecUrl == Init /\ [][NextUrl]_vars

-----------------------------------------------------------------------------
\* SpecRange: get_ranges on every header value of at most MaxHeaderLen
\* characters over the digit 1, -, a comma, "bytes=", a space, + and x, one
\* header in each behaviour.
MaxHeaderLen == 6

HeaderChars == {"1", "-", ",", "bytes=", " ", "+", "x"}

HeaderValues == UNION {[1..n -> HeaderChars] : n \in 0..MaxHeaderLen}

NextRange ==
    /\ resp = NoResponse
    /\ \E range_header_value \in HeaderValues : ParseRangeHeader(range_header_value)

SpecRange == Init /\ [][NextRange]_vars

-----------------------------------------------------------------------------
\* SpecToken: callbacks with kept tokens.  The identity encoding of one asset
\* is written and re-written by store (one chunk, digest of the content) and
\* by set_asset_content (two chunks, digest supplied or taken from the chunk
\* tree); callbacks come with any token for that asset, with no digest, with
\* a digest some encoding had, or with another one.
TokenEnv == Env(<<"identity">>, FALSE, TRUE)

TokenStoreArgs ==
    [key : Keys, content_type : {"text/html"}, content_encoding : {"identity"},
     content : Contents, sha256 : {NoSha}]

TokenChunkArgs == [batch_id : BatchIds, content : {<<1>>}, sha256 : {NoSha}]

TokenSetArgs ==
    [key : Keys, content_encoding : {"identity"}, chunk_ids : {<<1, 2>>},
     sha256 : {NoSha, RawSha}]

Tokens ==
    [some : {TRUE}, key : Keys, content_encoding : {"identity", "gzip"}, index : 0..2,
     sha256 : {NoSha, RawSha, ZeroSha, hash_bytes(<<1>>), hash_bytes(<<2, 2>>)}]

NextCallback ==
    \/ \E caller \in Callers : \E arg \in ArgsOf(caller, TokenStoreArgs) :
          Store(caller, arg, TokenEnv)
    \/ \E caller \in Callers :
          next_batch_id <= MaxBatchId /\ CreateBatch(caller, TokenEnv)
    \/ \E caller \in Callers : \E arg \in ArgsOf(caller, TokenChunkArgs) :
          next_chunk_id <= MaxChunkId /\ CreateChunk(caller, arg, TokenEnv)
    \/ \E caller \in Callers : \E arg \in ArgsOf(caller, TokenSetArgs) :
          SetAssetContent(caller, arg, TokenEnv)
    \/ \E token \in Tokens : Callback(token)

SpecToken == Init /\ [][NextCallback]_vars

-----------------------------------------------------------------------------
\* SpecAuth: every update method, called by the owner, by a principal the
\* owner may authorize and by one nobody authorizes.
Principals == {"owner", "stranger", "guest"}

AuthEnv == Env(<<"identity">>, FALSE, TRUE)

AuthStoreArgs ==
    [key : Keys, content_type : {"text/html"}, content_encoding : {"identity"},
     content : {<<1>>}, sha256 : {NoSha}]

AuthChunkArgs == [batch_id : BatchIds, content : {<<1>>}, sha256 : {NoSha}]

AuthCreateAssetArgs == [key : Keys, content_type : {"text/html"}]

AuthSetArgs ==
    [key : Keys, content_encoding : {"gzip"}, chunk_ids : {<<1>>}, sha256 : {NoSha}]

AuthUnsetArgs == [key : Keys, content_encoding : {"identity"}]

AuthCommitArgs ==
    [batch_id : BatchIds,
     operations : {<<>>, <<[op |-> "DeleteAsset", arg |-> [key |-> "/a"]]>>}]

NextAuth ==
    \/ \E caller \in Principals, other \in {"stranger"} : Authorize(caller, other)
    \/ \E caller \in Principals : \E arg \in AuthStoreArgs : Store(caller, arg, AuthEnv)
    \/ \E caller \in Principals :
          next_batch_id <= MaxBatchId /\ CreateBatch(caller, AuthEnv)
    \/ \E caller \in Principals : \E arg \in AuthChunkArgs :
          next_chunk_id <= MaxChunkId /\ CreateChunk(caller, arg, AuthEnv)
    \/ \E caller \in Principals : \E arg \in AuthCreateAssetArgs : CreateAsset(caller, arg)
    \/ \E caller \in Principals : \E arg \in AuthSetArgs :
          SetAssetContent(caller, arg, AuthEnv)
    \/ \E caller \in Principals : \E arg \in AuthUnsetArgs :
          UnsetAssetContent(caller, arg, AuthEnv)
    \/ \E caller \in Principals, arg \in [key : Keys] : DeleteContent(caller, arg)
    \/ \E caller \in Principals : Clear(caller)
    \/ \E caller \in Principals : \E arg \in AuthCommitArgs :
          CommitBatch(caller, arg, AuthEnv)
    \/ Upgrade(AuthEnv)

SpecAuth == Init /\ [][NextAuth]_vars

-----------------------------------------------------------------------------
\* Properties.

CertifiedEncodings(asset) == {e \in DOMAIN asset.encodings : asset.encodings[e].certified}

\* The fields of a handler state that make up the canister state.
StateOf(s) ==
    <<s.assets, s.chunks, s.next_chunk_id, s.batches, s.next_batch_id, s.authorized,
      s.asset_hashes, s.chunk_hashes, s.certified_data>>

\* C1 as stated: every asset has at most one certified encoding, and a
\* certified encoding is the first encoding of the asset in
\* ENCODING_CERTIFICATION_ORDER.
C1_CertifiedIsFirstInOrder ==
    \A key \in DOMAIN assets :
        /\ Cardinality(CertifiedEncodings(assets[key])) <= 1
        /\ \A e \in CertifiedEncodings(assets[key]) :
              e = FirstPresent(ENCODING_CERTIFICATION_ORDER, assets[key].encodings, 1)

\* C1 amended: every asset has at most one certified encoding, and when the
\* asset has an encoding named in ENCODING_CERTIFICATION_ORDER a certified
\* encoding is the first such encoding (for an asset whose encodings are all
\* outside the order it is whichever encoding the fallback picked).
C1_CertifiedIsFirstInOrderOrFallback ==
    \A key \in DOMAIN assets :
        LET certified == CertifiedEncodings(assets[key])
            preferred == FirstPresent(ENCODING_CERTIFICATION_ORDER, assets[key].encodings, 1)
        IN /\ Cardinality(certified) <= 1
           /\ preferred # "" => certified \subseteq {preferred}

\* C1 witness: a gzip encoding was certified first and an identity encoding,
\* stored later, took the certification over.
C1_Witness ==
    /\ Has(assets, "/a")
    /\ DOMAIN assets["/a"].encodings = {"identity", "gzip", "zstd"}
    /\ CertifiedEncodings(assets["/a"]) = {"identity"}
    /\ Len(assets["/a"].encodings["gzip"].content_chunks) = 2

\* C2: the asset-hash tree has an entry for a key exactly when the asset has a
\* certified encoding, and the entry is the digest of that encoding.
C2_AssetHashMatchesCertified ==
    \A key \in (DOMAIN assets) \cup (DOMAIN asset_hashes) :
        /\ Has(asset_hashes, key) <=>
              (Has(assets, key) /\ CertifiedEncodings(assets[key]) # {})
        /\ Has(assets, key) =>
              \A e \in CertifiedEncodings(assets[key]) :
                 Has(asset_hashes, key) /\ asset_hashes[key] = assets[key].encodings[e].sha256

\* C3: an asset without encodings has no entry in the asset-hash tree and no
\* chunk-hash tree.
C3_EmptyAssetHasNoHashes ==
    \A key \in DOMAIN assets :
        DOMAIN assets[key].encodings = {} =>
            ~Has(asset_hashes, key) /\ ~Has(chunk_hashes, key)

\* C4: a successful delete_content{key} leaves no asset, no asset-hash entry
\* and no chunk-hash tree for key.
C4_DeleteRemovesEverything ==
    [][\A caller \in Callers, arg \in [key : Keys] :
          (is_authorized(Current, caller) /\ DeleteContent(caller, arg)) =>
              /\ ~Has(assets', arg.key)
              /\ ~Has(asset_hashes', arg.key)
              /\ ~Has(chunk_hashes', arg.key)]_vars

\* The latest message was an http_request answered with a data certificate
\* at hand.
Requested == resp.method = "http_request" /\ resp.request.certificate

ChunkContents(enc) == {enc.content_chunks[i].content : i \in 1..Len(enc.content_chunks)}

\* C5: a request without Range for a path that was never stored, while the
\* index file has a certified encoding, is answered 200 with the first chunk
\* of that encoding.
C5_IndexFallbackServes ==
    (/\ Requested
     /\ ~resp.request.range.some
     /\ ~Has(assets, resp.request.path)
     /\ ~Has(asset_hashes, resp.request.path)
     /\ ~Has(chunk_hashes, resp.request.path)
     /\ Has(assets, INDEX_FILE)
     /\ CertifiedEncodings(assets[INDEX_FILE]) # {})
    => /\ ~resp.trapped
       /\ resp.status_code = 200
       /\ \E e \in CertifiedEncodings(assets[INDEX_FILE]) :
             resp.body = assets[INDEX_FILE].encodings[e].content_chunks[1].content

\* C6: a request for a path without asset, while the asset-hash tree has no
\* entry for the index file, is answered 404 "not found" with a certificate
\* header.
C6_NotFoundIsCertified ==
    (/\ Requested
     /\ ~Has(assets, resp.request.path)
     /\ ~Has(asset_hashes, INDEX_FILE))
    => /\ ~resp.trapped
       /\ resp.status_code = 404
       /\ resp.body = NotFoundBody
       /\ resp.certificate.some

\* The latest message requested, with Accept-Encoding: gzip, an asset that
\* has a gzip and an identity encoding of which only identity is certified.
GzipRequestedIdentityCertified ==
    /\ Requested
    /\ resp.request.accept = <<"gzip">>
    /\ Has(assets, resp.request.path)
    /\ {"identity", "gzip"} \subseteq DOMAIN assets[resp.request.path].encodings
    /\ CertifiedEncodings(assets[resp.request.path]) = {"identity"}

CreateBatchStep ==
    \E caller \in Callers : is_authorized(Current, caller) /\ CreateBatch(caller, BatchEnv)

\* C8: create_batch at time now leaves the new batch with expires_at = now +
\* BATCH_EXPIRY_NANOS, removes every batch with expires_at <= now and its
\* chunks, removes every chunk whose batch is missing, and keeps every batch
\* with expires_at > now and its chunks as they were.
C8_CreateBatchSweeps ==
    [][CreateBatchStep =>
          /\ Has(batches', next_batch_id)
          /\ batches'[next_batch_id].expires_at = now + BATCH_EXPIRY_NANOS
          /\ \A b \in DOMAIN batches :
                batches[b].expires_at <= now =>
                    /\ ~Has(batches', b)
                    /\ \A c \in DOMAIN chunks' : chunks'[c].batch_id # b
          /\ \A c \in DOMAIN chunks :
                ~Has(batches, chunks[c].batch_id) => ~Has(chunks', c)
          /\ \A b \in DOMAIN batches :
                batches[b].expires_at > now =>
                    /\ Has(batches', b) /\ batches'[b] = batches[b]
                    /\ \A c \in DOMAIN chunks :
                          chunks[c].batch_id = b => Has(chunks', c) /\ chunks'[c] = chunks[c]
      ]_vars

\* C8 witness: the third create_batch has swept batch 1 and its chunk, and
\* kept the younger batch 2 and its chunk.
C8_Witness ==
    /\ next_batch_id = 4
    /\ DOMAIN batches = {2, 3}
    /\ batches[3].expires_at = now + BATCH_EXPIRY_NANOS
    /\ batches[2].expires_at < batches[3].expires_at
    /\ DOMAIN chunks = {2}
    /\ chunks[2].batch_id = 2

\* C9 as stated: in every state every chunk belongs to a batch of the batch
\* table that expires after the current time.
C9_ChunksBelongToLiveBatches ==
    \A c \in DOMAIN chunks :
        /\ Has(batches, chunks[c].batch_id)
        /\ batches[chunks[c].batch_id].expires_at > now

\* C9 amended: in the state a successful create_batch leaves, every chunk
\* belongs to a batch of the batch table that expires after the time of the
\* call.
C9_ChunksLiveAfterCreateBatch ==
    [][CreateBatchStep =>
          \A c \in DOMAIN chunks' :
              /\ Has(batches', chunks'[c].batch_id)
              /\ batches'[chunks'[c].batch_id].expires_at > now
      ]_vars

\* C9 witness: a create_batch that ran in the same instant as the previous
\* one has removed the chunk batch 1 left behind and kept the chunk of the
\* live batch 2.
C9_Witness ==
    /\ next_batch_id = 4
    /\ next_chunk_id = 3
    /\ DOMAIN batches = {2, 3}
    /\ batches[3].expires_at = now + BATCH_EXPIRY_NANOS
    /\ batches[2].expires_at = batches[3].expires_at
    /\ DOMAIN chunks = {2}
    /\ chunks[2].batch_id = 2

PropEnv == Env(<<"zstd", "gzip", "identity">>, FALSE, TRUE)

\* The chunk ids a chunk_ids list names.
IdsOf(chunk_ids) == {chunk_ids[i] : i \in 1..Len(chunk_ids)}

\* After clear: a new batch, and new chunks staged until the chunk id `upto`
\* has been handed out again.
RECURSIVE Restage(_, _)
Restage(s, upto) ==
    IF s.trapped \/ s.next_chunk_id > upto THEN s
    ELSE Restage(create_chunk(s, [batch_id |-> s.next_batch_id - 1, content |-> <<1>>,
                                  sha256 |-> NoSha], PropEnv), upto)

ClearAndRestage(s, upto) == Restage(create_batch(do_clear(s), PropEnv), upto)

\* C11 as stated: once a successful set_asset_content has consumed its chunk
\* ids, every later set_asset_content naming one of them aborts, whatever
\* calls were made in between (here: none, or a clear followed by a
\* create_batch and create_chunks).
C11_ConsumedIdNeverUsable ==
    \A arg \in SetAssetContentArgs :
        LET r == do_set_asset_content(Current, arg, PropEnv)
            later == do_create_asset(ClearAndRestage(r, MaxChunkId),
                                     [key |-> arg.key, content_type |-> "text/html"])
        IN ~r.trapped =>
              /\ do_set_asset_content(r, arg, PropEnv).trapped
              /\ do_set_asset_content(later, arg, PropEnv).trapped

\* C11 amended: a successful set_asset_content removes every chunk id it
\* lists from the chunk table; a set_asset_content that names an id missing
\* from the chunk table, or names an id twice, aborts; and so does a commit
\* whose second SetAssetContent names an id the first one consumed.
C11_ConsumedWhileNotRestaged ==
    \A arg \in SetAssetContentArgs :
        LET r == do_set_asset_content(Current, arg, PropEnv)
        IN /\ ~r.trapped => IdsOf(arg.chunk_ids) \cap DOMAIN r.chunks = {}
           /\ ~r.trapped => do_set_asset_content(r, arg, PropEnv).trapped
           /\ ~(IdsOf(arg.chunk_ids) \subseteq DOMAIN chunks) => r.trapped
           /\ Cardinality(IdsOf(arg.chunk_ids)) < Len(arg.chunk_ids) => r.trapped
           /\ \A arg2 \in SetAssetContentArgs :
                 IdsOf(arg.chunk_ids) \cap IdsOf(arg2.chunk_ids) # {} =>
                     commit_batch(Current,
                        [batch_id |-> 1,
                         operations |-> <<[op |-> "SetAssetContent", arg |-> arg],
                                          [op |-> "SetAssetContent", arg |-> arg2]>>],
                        PropEnv).trapped

\* C11 witness: both staged chunks were consumed into a two-chunk encoding
\* and are gone from the chunk table.
C11_Witness ==
    /\ Has(assets, "/a")
    /\ Has(assets["/a"].encodings, "gzip")
    /\ Len(assets["/a"].encodings["gzip"].content_chunks) = 2
    /\ DOMAIN chunks = {}
    /\ next_chunk_id = 3

\* The canister state after an update call by caller whose handler ends in r.
AfterUpdate(caller, r) == StateOf(rollback(Current, guard(Current, caller, r)))

\* Every guarded update method, called by a principal outside the authorized
\* list with any argument, leaves the canister state as it is.
GuardedCallsRejected(caller) ==
    /\ \A arg \in AuthStoreArgs :
          AfterUpdate(caller, store(Current, arg, AuthEnv)) = StateOf(Current)
    /\ AfterUpdate(caller, create_batch(Current, AuthEnv)) = StateOf(Current)
    /\ \A arg \in AuthChunkArgs :
          AfterUpdate(caller, create_chunk(Current, arg, AuthEnv)) = StateOf(Current)
    /\ \A arg \in AuthCreateAssetArgs :
          AfterUpdate(caller, do_create_asset(Current, arg)) = StateOf(Current)
    /\ \A arg \in AuthSetArgs :
          AfterUpdate(caller, do_set_asset_content(Current, arg, AuthEnv)) = StateOf(Current)
    /\ \A arg \in AuthUnsetArgs :
          AfterUpdate(caller, do_unset_asset_content(Current, arg, AuthEnv)) = StateOf(Current)
    /\ \A arg \in [key : Keys] :
          AfterUpdate(caller, do_delete_asset(Current, arg)) = StateOf(Current)
    /\ AfterUpdate(caller, do_clear(Current)) = StateOf(Current)
    /\ \A arg \in AuthCommitArgs :
          AfterUpdate(caller, commit_batch(Current, arg, AuthEnv)) = StateOf(Current)

\* authorize is not guarded by the host; it checks the caller itself.
AuthorizeRejected(caller) ==
    \A other \in Principals :
        StateOf(rollback(Current, authorize(Current, caller, other))) = StateOf(Current)

\* C12: a call to any update method by a principal outside the authorized
\* list leaves the whole canister state unchanged, and no step removes or
\* replaces an entry of the authorized list.
C12_UnauthorizedChangesNothing ==
    /\ [](\A caller \in Principals :
            ~is_authorized(Current, caller) =>
                GuardedCallsRejected(caller) /\ AuthorizeRejected(caller))
    /\ [][/\ Len(authorized') >= Len(authorized)
          /\ SubSeq(authorized', 1, Len(authorized)) = authorized]_vars

\* C12 witness: the owner has authorized a second principal, a third one is
\* not authorized, and there are an asset, a batch and a staged chunk that a
\* call of the third one would change if it were let through.
C12_Witness ==
    /\ authorized = <<"owner", "stranger">>
    /\ ~is_authorized(Current, "guest")
    /\ DOMAIN assets # {}
    /\ DOMAIN batches # {}
    /\ DOMAIN chunks # {}

\* C13: after a successful store of an identity encoding, retrieve returns
\* exactly the stored content, whatever the key held before; and retrieve
\* aborts when the asset is missing, has no identity encoding, or its identity
\* encoding has more than one chunk.
C13_StoreRetrieveRoundTrip ==
    /\ \A arg \in ContentStoreArgs, env \in ContentEnvs :
          LET r == store(Current, arg, env)
          IN (arg.content_encoding = "identity" /\ ~r.trapped) =>
                /\ ~retrieve(r, arg.key).trapped
                /\ retrieve(r, arg.key).body = arg.content
    /\ \A key \in Keys \cup {"/b"} :
          (\/ ~Has(assets, key)
           \/ ~Has(assets[key].encodings, "identity")
           \/ Len(assets[key].encodings["identity"].content_chunks) > 1)
          => retrieve(Current, key).trapped

\* C13 witness: retrieve has returned the stored content of a key that also
\* holds a two-chunk gzip encoding, whose hashes fill the chunk-hash tree.
C13_Witness ==
    /\ resp.method = "retrieve"
    /\ ~resp.trapped
    /\ resp.body = <<1>>
    /\ Has(assets, "/a")
    /\ DOMAIN assets["/a"].encodings = {"identity", "gzip"}
    /\ Len(assets["/a"].encodings["gzip"].content_chunks) = 2
    /\ Has(chunk_hashes, "/a")
    /\ DOMAIN chunk_hashes["/a"] = {0, 1}

\* The sum of the lengths of the first n chunks.
RECURSIVE LengthOf(_, _)
LengthOf(content_chunks, n) ==
    IF n = 0 THEN 0
    ELSE LengthOf(content_chunks, n - 1) + Len(content_chunks[n].content)

\* x - 1 in unsigned 64-bit arithmetic.
U64MinusOne(x) == IF x = 0 THEN AllOnes ELSE x - 1

\* C14: every encoding has at least one chunk, a total_length that is the sum
\* of its chunk lengths, and chunks whose start_byte is the sum of the lengths
\* before them and whose end_byte is start_byte + len - 1 in unsigned 64-bit
\* arithmetic.
C14_ChunkBoundsConsistent ==
    \A key \in DOMAIN assets : \A e \in DOMAIN assets[key].encodings :
        LET enc == assets[key].encodings[e]
            n == Len(enc.content_chunks)
        IN /\ n > 0
           /\ enc.total_length = LengthOf(enc.content_chunks, n)
           /\ \A i \in 1..n :
                 /\ enc.content_chunks[i].start_byte = LengthOf(enc.content_chunks, i - 1)
                 /\ enc.content_chunks[i].end_byte =
                       U64MinusOne(enc.content_chunks[i].start_byte
                                   + Len(enc.content_chunks[i].content))

\* The digest the encoding `name` of key has in s.
DigestOf(s, key, name) == s.assets[key].encodings[name].sha256

\* C15 as stated: an encoding created without a caller-supplied digest, by
\* store or by set_asset_content, has the root hash of the asset's chunk-hash
\* tree as its digest; one created with a supplied digest has that digest.
C15_DigestIsTreeRoot ==
    /\ \A arg \in ContentStoreArgs, env \in ContentEnvs :
          LET r == store(Current, arg, env)
          IN ~r.trapped =>
                DigestOf(r, arg.key, arg.content_encoding) =
                    IF arg.sha256 = NoSha THEN root_hash(r.chunk_hashes[arg.key])
                    ELSE arg.sha256
    /\ \A arg \in ContentSetArgs, env \in ContentEnvs :
          LET r == do_set_asset_content(Current, arg, env)
          IN ~r.trapped =>
                DigestOf(r, arg.key, arg.content_encoding) =
                    IF arg.sha256 = NoSha THEN root_hash(r.chunk_hashes[arg.key])
                    ELSE arg.sha256

\* The chunk-hash tree of key once the hashes of the staged chunks chunk_ids
\* are inserted at the indexes the tree does not have yet.
TreeWith(key, chunk_ids) ==
    LET tree == IF Has(chunk_hashes, key) THEN chunk_hashes[key] ELSE EmptyMap
    IN [i \in (DOMAIN tree) \cup (0..(Len(chunk_ids) - 1)) |->
           IF Has(tree, i) THEN tree[i] ELSE chunks[chunk_ids[i + 1]].sha256]

\* C15 amended: store sets the digest to the SHA-256 of the content, which
\* is also the supplied digest when one is supplied; set_asset_content sets
\* it to the supplied digest, or without one to the root hash the asset's
\* chunk-hash tree has after the call inserted the new chunk hashes at the
\* indexes the tree lacked.
C15_DigestAtCreation ==
    /\ \A arg \in ContentStoreArgs, env \in ContentEnvs :
          LET r == store(Current, arg, env)
          IN ~r.trapped =>
                /\ DigestOf(r, arg.key, arg.content_encoding) = hash_bytes(arg.content)
                /\ arg.sha256 # NoSha =>
                      DigestOf(r, arg.key, arg.content_encoding) = arg.sha256
    /\ \A arg \in ContentSetArgs, env \in ContentEnvs :
          LET r == do_set_asset_content(Current, arg, env)
          IN ~r.trapped =>
                DigestOf(r, arg.key, arg.content_encoding) =
                    IF arg.sha256 = NoSha THEN root_hash(TreeWith(arg.key, arg.chunk_ids))
                    ELSE arg.sha256

\* C15 witness: a two-chunk encoding made by set_asset_content without a
\* digest carries the root hash of a tree that still holds, at index 0, the
\* hash of the content an earlier store certified.
C15_Witness ==
    /\ Has(assets, "/a")
    /\ DOMAIN assets["/a"].encodings = {"identity", "gzip"}
    /\ Has(chunk_hashes, "/a")
    /\ DOMAIN chunk_hashes["/a"] = {0, 1}
    /\ chunk_hashes["/a"][0] = hash_bytes(<<1>>)
    /\ Len(assets["/a"].encodings["gzip"].content_chunks) = 2
    /\ assets["/a"].encodings["gzip"].content_chunks[1].content = <<>>
    /\ assets["/a"].encodings["gzip"].sha256 = root_hash(chunk_hashes["/a"])
    /\ assets["/a"].encodings["identity"].sha256 = hash_bytes(<<1>>)

\* The token that continues a stream of the encoding `name` of key after its
\* chunk `index`: a token for chunk index + 1 carrying the digest of the
\* encoding, or none after the last chunk.
NextToken(key, name, index) ==
    LET enc == assets[key].encodings[name]
    IN IF index + 1 < Len(enc.content_chunks)
       THEN [some |-> TRUE, key |-> key, content_encoding |-> name,
             index |-> index + 1, sha256 |-> enc.sha256]
       ELSE NoToken

\* The encoding a response names in Content-Encoding.
ServedEncoding(response) ==
    IF response.content_encoding = "" THEN "identity" ELSE response.content_encoding

\* C16: a 200 response serves chunk 0; a callback with the token of the
\* latest response serves the chunk the token names; either response carries
\* the token of the next chunk exactly when the chunk it served is not the
\* last one; and a client that holds a token eventually holds none.
C16_StreamDeliversInOrder ==
    /\ []((resp.method = "http_request" /\ ~resp.trapped /\ resp.status_code = 200) =>
            /\ resp.body = assets[resp.request.path].encodings[ServedEncoding(resp)]
                              .content_chunks[1].content
            /\ resp.token = NextToken(resp.request.path, ServedEncoding(resp), 0))
    /\ [][StreamingCallback =>
            /\ ~resp'.trapped
            /\ resp.token.index < Len(assets[resp.token.key]
                                         .encodings[resp.token.content_encoding].content_chunks)
            /\ resp'.body = assets[resp.token.key].encodings[resp.token.content_encoding]
                               .content_chunks[resp.token.index + 1].content
            /\ resp'.token = NextToken(resp.token.key, resp.token.content_encoding,
                                       resp.token.index)]_vars
    /\ (resp.token.some ~> ~resp.token.some)

\* C16 witness: the second callback of a stream has delivered the third and
\* last chunk of a three-chunk encoding, with no further token.
C16_Witness ==
    /\ resp.method = "http_request_streaming_callback"
    /\ ~resp.trapped
    /\ resp.request.token.index = 2
    /\ ~resp.token.some
    /\ Len(assets["/a"].encodings[resp.request.token.content_encoding].content_chunks) = 3
    /\ resp.body = assets["/a"].encodings[resp.request.token.content_encoding]
                      .content_chunks[3].content

\* The arguments get_chunk is asked with.
GetChunkArgs ==
    [key : Paths, content_encoding : EncodingNames, index : 0..1,
     sha256 : {NoSha, RawSha}]

\* C17: in every reachable state, list, get, get_chunk and http_request
\* answer every argument after an upgrade (pre_upgrade, a fresh instance,
\* post_upgrade) exactly as they answer it before.
C17_UpgradePreservesQueries ==
    LET upgraded == upgrade(Current, PropEnv)
    IN /\ list(upgraded) = list(Current)
       /\ \A key \in Paths, accept \in {<<>>, <<"identity">>, <<"gzip", "identity">>} :
             get(upgraded, key, accept) = get(Current, key, accept)
       /\ \A arg \in GetChunkArgs : get_chunk(upgraded, arg) = get_chunk(Current, arg)
       /\ \A path \in Paths, accept \in {<<>>, <<"gzip">>}, range \in Ranges :
             http_request(upgraded, path, accept, range, PropEnv)
               = http_request(Current, path, accept, range, PropEnv)

\* A step that lowers one of the two id counters.
CountersDecrease == next_batch_id' < next_batch_id \/ next_chunk_id' < next_chunk_id

\* A clear call, or a commit_batch call with a Clear among its operations.
ClearStep ==
    \/ \E caller \in Callers : Clear(caller)
    \/ \E caller \in Callers, hm \in HashOrders :
          \E arg \in [batch_id : BatchIds, operations : OperationLists] :
             /\ \E i \in DOMAIN arg.operations : arg.operations[i].op = "Clear"
             /\ CommitBatch(caller, arg, Env(hm, FALSE, TRUE))

\* An upgrade of the canister.
UpgradeStep == \E hm \in HashOrders : Upgrade(Env(hm, FALSE, TRUE))

\* The id a create call hands out is the counter, the counter moves up by
\* one, and every batch and chunk in the tables has an id below its counter.
IdsAreFresh ==
    /\ \A b \in DOMAIN batches : b < next_batch_id
    /\ \A c \in DOMAIN chunks : c < next_chunk_id
    /\ create_batch(Current, PropEnv).next_batch_id = next_batch_id + 1
    /\ \A arg \in CreateChunkArgs :
          LET r == create_chunk(Current, arg, PropEnv)
          IN ~r.trapped => r.next_chunk_id = next_chunk_id + 1

\* C18 as stated: only a clear (direct or inside commit_batch) lowers a
\* counter, and the ids handed out are fresh.
C18_CountersResetOnlyByClear ==
    []IdsAreFresh /\ [][CountersDecrease => ClearStep]_vars

\* C18: only a clear (direct or inside commit_batch) or an upgrade lowers a
\* counter; an upgrade leaves both counters at 1 with no batch and no chunk;
\* and the ids handed out are fresh.
C18_CountersResetOnlyByClearOrUpgrade ==
    /\ []IdsAreFresh
    /\ [][CountersDecrease => (ClearStep \/ UpgradeStep)]_vars
    /\ [][UpgradeStep => /\ next_batch_id' = 1 /\ next_chunk_id' = 1
                         /\ batches' = EmptyMap /\ chunks' = EmptyMap]_vars

\* C18 witness: after an upgrade, create_batch handed out id 1 again and two
\* create_chunk calls handed out ids 1 and 2.
C18_Witness ==
    /\ upgrades = 1
    /\ next_batch_id = 2 /\ DOMAIN batches = {1}
    /\ next_chunk_id = 3 /\ DOMAIN chunks = {1, 2}

\* A clear call by an authorized caller.
ClearSucceeds == \E caller \in Principals : is_authorized(Current, caller) /\ Clear(caller)

\* C19: after a clear by an authorized caller the asset, chunk and batch
\* tables are empty, both counters are 1, and the authorized list is the one
\* before the call.
C19_ClearEmptiesButKeepsAuthorized ==
    [][ClearSucceeds =>
          /\ assets' = EmptyMap /\ chunks' = EmptyMap /\ batches' = EmptyMap
          /\ next_batch_id' = 1 /\ next_chunk_id' = 1
          /\ authorized' = authorized]_vars

\* C19 witness: a clear has emptied a canister that held an asset (its entry
\* in the asset-hash tree is still there) while two principals are
\* authorized.
C19_Witness ==
    /\ assets = EmptyMap /\ chunks = EmptyMap /\ batches = EmptyMap
    /\ next_batch_id = 1 /\ next_chunk_id = 1
    /\ asset_hashes # EmptyMap
    /\ authorized = <<"owner", "stranger">>

\* C20: create_asset on an absent key inserts an asset of that content type
\* with no encodings and changes nothing else; on a key of the same content
\* type it leaves the whole state as it is, so a second call changes nothing
\* either; on a key of another content type it traps, and the state after
\* the call is the state before it.
C20_CreateAssetSemantics ==
    \A arg \in [key : Keys, content_type : ContentTypes] :
       LET r == do_create_asset(Current, arg)
       IN /\ ~Has(assets, arg.key) =>
                /\ ~r.trapped
                /\ r = [Current EXCEPT !.assets =
                          Put(@, arg.key, [content_type |-> arg.content_type,
                                           encodings |-> EmptyMap])]
                /\ do_create_asset(r, arg) = r
          /\ (Has(assets, arg.key) /\ assets[arg.key].content_type = arg.content_type) =>
                r = Current
          /\ (Has(assets, arg.key) /\ assets[arg.key].content_type # arg.content_type) =>
                r.trapped /\ rollback(Current, r) = Current

\* C20 witness: an asset with an encoding exists, so create_asset with its
\* content type must keep the encoding and with the other type must trap.
C20_Witness ==
    /\ Has(assets, "/a")
    /\ assets["/a"].content_type = "text/html"
    /\ DOMAIN assets["/a"].encodings # {}

\* Chunk i (from 0) of enc is what a 206 response for start_byte must carry:
\* its byte range contains start_byte, the body is its content, Content-Range
\* names its bounds and the total length, and the token points at i + 1
\* exactly when chunk i is not the last.
RangeServedFrom(response, enc, i, start_byte) ==
    LET chunk == enc.content_chunks[i + 1]
    IN /\ chunk.start_byte <= start_byte /\ start_byte <= chunk.end_byte
       /\ response.body = chunk.content
       /\ response.content_range.start_byte = chunk.start_byte
       /\ response.content_range.end_byte = chunk.end_byte
       /\ response.content_range.total = enc.total_length
       /\ response.token.some <=> (i + 1 < Len(enc.content_chunks))
       /\ response.token.some => response.token.index = i + 1

\* C21: every 206 response of http_request carries the chunk of the served
\* encoding (of the requested asset or of /index.html) whose byte range
\* contains the requested start byte.
C21_RangeServesContainingChunk ==
    (resp.method = "http_request" /\ ~resp.trapped /\ resp.status_code = 206) =>
       \E key \in {resp.request.path, INDEX_FILE} :
          /\ Has(assets, key)
          /\ Has(assets[key].encodings, ServedEncoding(resp))
          /\ LET enc == assets[key].encodings[ServedEncoding(resp)]
             IN \E i \in 0..(Len(enc.content_chunks) - 1) :
                   RangeServedFrom(resp, enc, i, resp.request.range.start_byte)

\* The escapes and plain bytes a well-formed url is made of, each with the
\* code point it stands for: %% is %, %HL is the byte 16 H + L, + is a space,
\* any byte other than % is itself.
UrlTokens ==
    {[bytes |-> <<Percent, Percent>>, char |-> Percent]}
    \cup {[bytes |-> <<Percent, h, l>>, char |-> 16 * to_digit(h) + to_digit(l)] :
            h \in {50, 101}, l \in {50, 101}}
    \cup {[bytes |-> <<b>>, char |-> IF b = Plus THEN Space ELSE b] :
            b \in UrlBytes \ {Percent}}

RECURSIVE ConcatBytes(_)
ConcatBytes(tokens) ==
    IF tokens = <<>> THEN <<>> ELSE Head(tokens).bytes \o ConcatBytes(Tail(tokens))

\* Every well-formed url of at most MaxUrlLen bytes with its decoding.
Decodings ==
    {[url |-> ConcatBytes(ts), chars |-> [i \in DOMAIN ts |-> ts[i].char]] :
        ts \in {x \in UNION {[1..n -> UrlTokens] : n \in 0..MaxUrlLen} :
                  Len(ConcatBytes(x)) <= MaxUrlLen}}

\* C22: url_decode succeeds exactly on the urls made of %%, %HH, + and bytes
\* other than %, and then yields the code point of each in order; on every
\* other url it fails with InvalidPercentEncoding.
C22_UrlDecode ==
    resp.method = "url_decode" =>
       LET url == resp.request.path
       IN IF \E d \in Decodings : d.url = url
          THEN resp.status_code # 400 /\ [url |-> url, chars |-> resp.body] \in Decodings
          ELSE resp.status_code = 400 /\ resp.msg = "invalid percent encoding"

\* C22 witness: "%%+@" is decoded to "% @", and "%2e%" has been refused.
C22_Witness ==
    /\ resp.method = "url_decode"
    /\ \/ resp.request.path = <<Percent, Percent, Plus, 64>> /\ resp.body = <<Percent, Space, 64>>
       \/ resp.request.path = <<Percent, 50, 101, Percent>> /\ resp.status_code = 400

\* The position of the first - of a string, 0 if it has none.
FirstDash(str) ==
    IF \A i \in DOMAIN str : str[i] # "-" THEN 0
    ELSE CHOOSE i \in DOMAIN str : str[i] = "-" /\ \A k \in 1..(i - 1) : str[k] # "-"

BeforeDash(str) == SubSeq(str, 1, FirstDash(str) - 1)

AfterDash(str) == SubSeq(str, FirstDash(str) + 1, Len(str))

\* The part of an element that is read as its end: all that follows the
\* first - (to_end), or what lies between the first - and the next one.
EndPart(str, to_end) ==
    IF to_end \/ FirstDash(AfterDash(str)) = 0 THEN AfterDash(str)
    ELSE BeforeDash(AfterDash(str))

\* What get_ranges has to return for the header of the latest response:
\* every element of the comma-separated list, bytes= taken off, needs a -
\* and a start that parses, or the result is None; the ranges come in the
\* order of the elements, each with the end its end part parses to, if any.
RangesAsSpecified(to_end) ==
    LET split == Split(resp.header, ",")
        elements == [i \in DOMAIN split |-> Remove_all(split[i], "bytes=")]
        well_formed == \A i \in DOMAIN elements :
                          /\ FirstDash(elements[i]) # 0
                          /\ parse_u64(trim(BeforeDash(elements[i]))).ok
    IN /\ resp.ranges.some <=> well_formed
       /\ ~well_formed => resp.request.range = NoRange
       /\ well_formed =>
            /\ Len(resp.ranges.ranges) = Len(elements)
            /\ \A i \in DOMAIN elements :
                  LET range == resp.ranges.ranges[i]
                      end_byte == parse_u64(trim(EndPart(elements[i], to_end)))
                  IN /\ range.start_byte = parse_u64(trim(BeforeDash(elements[i]))).value
                     /\ range.end_byte.some <=> end_byte.ok
                     /\ range.end_byte.some => range.end_byte.value = end_byte.value

InsertedEncoding ==
    [modified |-> now,
     content_chunks |-> <<[content |-> <<2, 2>>, start_byte |-> 0, end_byte |-> 1,
                           sha256 |-> hash_bytes(<<2, 2>>)]>>,
     certified |-> FALSE, total_length |-> 2, sha256 |-> RawSha]

\* The states in which a handler calls on_asset_change for key: the current
\* one (store over an existing encoding), the one where set_asset_content or
\* store has just inserted an encoding, and the one where
\* unset_asset_content has just removed one.
AtCertification(key) ==
    {Current}
    \cup {[Current EXCEPT !.assets[key].encodings = Put(@, name, InsertedEncoding)] :
            name \in EncodingNames}
    \cup {[Current EXCEPT !.assets[key].encodings = Remove(@, name)] :
            name \in DOMAIN assets[key].encodings}

\* The certification engine leaves the certified flags, both trees and the
\* published root of s as they are.
CertificationUnchanged(s, key) == on_asset_change(s, key, PropEnv) = s

\* C24 as stated: on_asset_change changes nothing whenever some encoding of
\* the priority list is certified.
C24_AnyCertifiedIsNoOp ==
    \A key \in DOMAIN assets : \A s \in AtCertification(key) :
       (\E i \in DOMAIN ENCODING_CERTIFICATION_ORDER :
           /\ Has(s.assets[key].encodings, ENCODING_CERTIFICATION_ORDER[i])
           /\ s.assets[key].encodings[ENCODING_CERTIFICATION_ORDER[i]].certified)
       => CertificationUnchanged(s, key)

\* C24: on_asset_change changes nothing whenever the first encoding of the
\* priority list that the asset has is certified.
C24_PreferredCertifiedIsNoOp ==
    \A key \in DOMAIN assets : \A s \in AtCertification(key) :
       LET preferred == FirstPresent(ENCODING_CERTIFICATION_ORDER, s.assets[key].encodings, 1)
       IN (preferred # "" /\ s.assets[key].encodings[preferred].certified)
          => CertificationUnchanged(s, key)

\* C24 witness: identity is certified, a gzip encoding is there as well, and
\* the asset-hash tree holds another digest than the one of identity, so that
\* certifying again would show.
C24_Witness ==
    /\ Has(assets, "/a")
    /\ {"identity", "gzip"} \subseteq DOMAIN assets["/a"].encodings
    /\ assets["/a"].encodings["identity"].certified
    /\ Has(asset_hashes, "/a")
    /\ asset_hashes["/a"] # assets["/a"].encodings["identity"].sha256

\* C25: whenever a step changes the asset-hash tree, the certified data
\* published to the host after the step is the labeled hash of the root of
\* the tree as it then is.
C25_PublishedRootFollowsTree ==
    [][asset_hashes' # asset_hashes => certified_data' = labeled_hash(asset_hashes')]_vars

RefreshArgs ==
    [batch_id : 1..BatchIdCap, content : {<<1>>}, sha256 : {NoSha, ShortSha}]

\* create_chunk fails with "batch not found" exactly when the batch is not in
\* the table; on a batch of the table, expired or not, it sets expires_at to
\* now + BATCH_EXPIRY_NANOS and adds the chunk; and a create_batch at any of
\* the times now .. now + last then keeps the batch, its earlier chunks and
\* the new one.
RefreshKeepsBatch(last) ==
    \A arg \in RefreshArgs :
       LET r == create_chunk(Current, arg, BatchEnv)
           b == arg.batch_id
       IN /\ (r.trapped /\ r.msg = "batch not found") <=> ~Has(batches, b)
          /\ (Has(batches, b) /\ arg.sha256 = NoSha) =>
                /\ ~r.trapped
                /\ r.batches[b].expires_at = now + BATCH_EXPIRY_NANOS
                /\ Has(r.chunks, next_chunk_id) /\ r.chunks[next_chunk_id].batch_id = b
                /\ \A t \in now..(now + last) :
                      LET swept == create_batch(r, [BatchEnv EXCEPT !.now = t])
                      IN /\ Has(swept.batches, b)
                         /\ \A c \in DOMAIN r.chunks :
                               r.chunks[c].batch_id = b =>
                                  Has(swept.chunks, c) /\ swept.chunks[c] = r.chunks[c]

\* C27 as stated: the refreshed batch and its chunks survive the next
\* create_batch, whenever it comes (here: up to the refreshed deadline).
C27_RefreshSurvivesNextSweep == RefreshKeepsBatch(BATCH_EXPIRY_NANOS)

\* C27: the refreshed batch and its chunks survive the next create_batch if
\* it comes before the refreshed deadline now + BATCH_EXPIRY_NANOS.
C27_RefreshSurvivesSweepBeforeDeadline == RefreshKeepsBatch(BATCH_EXPIRY_NANOS - 1)

\* C27 witness: the only create_chunk since batch 1 was made came at time 3
\* for batch 1, which had expired by then without being swept (batch 2, made
\* after it, has expired as well), and has moved its deadline to 3 +
\* BATCH_EXPIRY_NANOS.
C27_Witness ==
    /\ now = 3
    /\ next_batch_id = 3 /\ DOMAIN batches = {1, 2}
    /\ batches[2].expires_at <= now
    /\ batches[1].expires_at = now + BATCH_EXPIRY_NANOS
    /\ next_chunk_id = 2 /\ DOMAIN chunks = {1}
    /\ chunks[1].batch_id = 1

\* C28: for every asset with a certified encoding of n chunks, the asset's
\* chunk-hash tree has exactly the keys 0 .. n-1 and maps i to the digest of
\* chunk i of that encoding.
C28_ChunkTreeMatchesCertified ==
    \A key \in DOMAIN assets : \A e \in CertifiedEncodings(assets[key]) :
       LET content_chunks == assets[key].encodings[e].content_chunks
       IN /\ Has(chunk_hashes, key)
          /\ DOMAIN chunk_hashes[key] = 0..(Len(content_chunks) - 1)
          /\ \A i \in DOMAIN chunk_hashes[key] :
                chunk_hashes[key][i] = content_chunks[i + 1].sha256

\* One operation after another: the second sees the state the first left,
\* and is not run if the first trapped.
Sequenced(s, operations) ==
    LET RECURSIVE After(_)
        After(n) == IF n = 0 THEN s
                    ELSE LET before == After(n - 1)
                         IN IF before.trapped THEN before
                            ELSE apply_operation(before, operations[n], PropEnv)
    IN After(Len(operations))

\* The commit [Clear, CreateAsset key, SetAssetContent key <<chunk_id>>] of
\* batch batch_id.
ClearCreateSet(batch_id, key, chunk_id) ==
    [batch_id |-> batch_id,
     operations |->
        <<[op |-> "Clear", arg |-> [key |-> ""]],
          [op |-> "CreateAsset", arg |-> [key |-> key, content_type |-> "text/html"]],
          [op |-> "SetAssetContent",
           arg |-> [key |-> key, content_encoding |-> "gzip",
                    chunk_ids |-> <<chunk_id>>, sha256 |-> NoSha]]>>]

\* The chunks staged in a batch of the batch table.
Staged == {c \in DOMAIN chunks : Has(batches, chunks[c].batch_id)}

\* commit_batch runs its operations in list order, each on the state the one
\* before left, and then removes the batch.
CommitInListOrder ==
    \A arg \in [batch_id : BatchIds, operations : OperationLists] :
       LET r == commit_batch(Current, arg, PropEnv)
           seq == Sequenced(Current, arg.operations)
       IN r = IF seq.trapped THEN seq ELSE [seq EXCEPT !.batches = Remove(@, arg.batch_id)]

\* C29 as stated: operations run in list order, and the commit [Clear,
\* CreateAsset k, SetAssetContent k] with a chunk staged in the batch
\* succeeds and leaves k holding that chunk.
C29_ClearThenSetSucceeds ==
    /\ CommitInListOrder
    /\ \A c \in Staged :
          LET r == commit_batch(Current, ClearCreateSet(chunks[c].batch_id, "/a", c), PropEnv)
          IN /\ ~r.trapped
             /\ Has(r.assets, "/a") /\ Has(r.assets["/a"].encodings, "gzip")
             /\ r.assets["/a"].encodings["gzip"].content_chunks[1].content = chunks[c].content

\* C29: operations run in list order, so in the commit [Clear, CreateAsset k,
\* SetAssetContent k] the Clear removes every staged chunk before
\* SetAssetContent looks for its own: the commit traps with "chunk not
\* found" and the state stays as it was.
C29_ClearThenSetAborts ==
    /\ CommitInListOrder
    /\ \A c \in Staged :
          LET r == commit_batch(Current, ClearCreateSet(chunks[c].batch_id, "/a", c), PropEnv)
          IN /\ r.trapped /\ r.msg = "chunk not found"
             /\ StateOf(rollback(Current, r)) = StateOf(Current)

\* C29 witness: chunk 1 is staged in batch 1 while an asset exists that the
\* Clear of such a commit would remove.
C29_Witness ==
    /\ 1 \in Staged /\ chunks[1].batch_id = 1
    /\ Has(assets, "/a") /\ DOMAIN assets["/a"].encodings # {}

\* The commits of C30: any batch id, with CreateAsset alone or followed by a
\* SetAssetContent of one staged chunk.
OwnedCommitArgs ==
    [batch_id : 1..BatchIdCap,
     operations :
        {<<[op |-> "CreateAsset", arg |-> [key |-> "/a", content_type |-> "text/html"]]>>}
        \cup {<<[op |-> "CreateAsset", arg |-> [key |-> "/a", content_type |-> "text/html"]],
                [op |-> "SetAssetContent",
                 arg |-> [key |-> "/a", content_encoding |-> "gzip",
                          chunk_ids |-> <<c>>, sha256 |-> NoSha]]>> : c \in ChunkIds}]

\* The chunks the SetAssetContent operations of a commit name.
ReferencedChunks(arg) ==
    UNION {{arg.operations[i].arg.chunk_ids[j] : j \in DOMAIN arg.operations[i].arg.chunk_ids} :
              i \in {k \in DOMAIN arg.operations : arg.operations[k].op = "SetAssetContent"}}

\* C30: a commit that names a batch missing from the batch table, or whose
\* SetAssetContent names a chunk of another batch, aborts, and the chunks of
\* other batches are then as before.
C30_CommitOnlyOwnBatch ==
    \A arg \in OwnedCommitArgs :
       LET r == commit_batch(Current, arg, BatchEnv)
           foreign == {c \in ReferencedChunks(arg) \cap DOMAIN chunks :
                          chunks[c].batch_id # arg.batch_id}
       IN (~Has(batches, arg.batch_id) \/ foreign # {}) =>
             /\ r.trapped
             /\ \A c \in DOMAIN chunks :
                   chunks[c].batch_id # arg.batch_id =>
                      Has(rollback(Current, r).chunks, c)

\* The requests a client opens a stream with.
StreamRequests ==
    [path : Keys, accept : {<<>>, <<"gzip">>}, range : {NoRange, SomeRange(1)}]

\* The set_asset_content calls that can land between a response and its
\* callback: any staged chunks, with or without a digest from the caller.
ReplaceArgs ==
    [key : Keys, content_encoding : {"identity", "gzip"},
     chunk_ids : {<<c>> : c \in DOMAIN chunks}
                 \cup {<<c, d>> : c \in DOMAIN chunks, d \in DOMAIN chunks},
     sha256 : {NoSha, RawSha}]

\* The chunk contents of an encoding, in order.
BodiesOf(s, key, name) ==
    [i \in DOMAIN s.assets[key].encodings[name].content_chunks |->
        s.assets[key].encodings[name].content_chunks[i].content]

\* C31: when set_asset_content replaces the chunk list of an encoding with
\* other contents after http_request has issued a token for it, the
\* callback with that token traps.
C31_CallbackTrapsAfterReplace ==
    \A request \in StreamRequests : \A arg \in ReplaceArgs :
       LET first == http_request(Current, request.path, request.accept, request.range,
                                 StreamEnv)
           token == first.token
           after == do_set_asset_content(Current, arg, StreamEnv)
       IN (/\ ~first.trapped /\ token.some
           /\ arg.key = token.key /\ arg.content_encoding = token.content_encoding
           /\ ~after.trapped
           /\ BodiesOf(after, token.key, token.content_encoding)
                 # BodiesOf(Current, token.key, token.content_encoding))
          => http_request_streaming_callback(after, token).trapped

-----------------------------------------------------------------------------
\* SpecIndex: /index.html and one more asset, with encodings of one or two
\* chunks assembled from staged chunks; clients request either path, with or
\* without a Range header, and follow the token of the response.
IndexSetArgs ==
    [key : Paths, content_encoding : {"identity", "gzip"},
     chunk_ids : {<<1>>, <<1, 2>>, <<2, 3>>, <<3>>}, sha256 : {NoSha}]

NextIndex ==
    \/ \E caller \in Callers :
          next_batch_id <= MaxBatchId /\ CreateBatch(caller, StreamEnv)
    \/ \E caller \in Callers : \E arg \in ArgsOf(caller, StreamChunkArgs) :
          next_chunk_id <= StreamChunks /\ CreateChunk(caller, arg, StreamEnv)
    \/ \E caller \in Callers :
          \E arg \in ArgsOf(caller, [key : Paths, content_type : {"text/html"}]) :
             CreateAsset(caller, arg)
    \/ \E caller \in Callers : \E arg \in ArgsOf(caller, IndexSetArgs) :
          SetAssetContent(caller, arg, StreamEnv)
    \/ \E caller \in Callers, arg \in [key : Paths] : DeleteContent(caller, arg)
    \/ \E path \in Paths, accept \in {<<>>, <<"gzip">>}, range \in {NoRange, SomeRange(0)} :
          HttpRequest(path, accept, range, StreamEnv)
    \/ StreamingCallback

SpecIndex == Init /\ [][NextIndex]_vars

\* C32: the token of an http_request response names an asset and an encoding
\* of the asset table, the body of the response is the chunk before the
\* token's index in that encoding, and the callback with the token, on the
\* state the response was built from, returns the chunk at the token's index.
C32_TokenNamesServedEncoding ==
    (resp.method = "http_request" /\ ~resp.trapped /\ resp.token.some) =>
       LET token == resp.token
           next == http_request_streaming_callback(Current, token)
       IN /\ Has(assets, token.key)
          /\ Has(assets[token.key].encodings, token.content_encoding)
          /\ token.content_encoding = ServedEncoding(resp)
          /\ LET enc == assets[token.key].encodings[token.content_encoding]
             IN /\ token.index < Len(enc.content_chunks)
                /\ resp.body = enc.content_chunks[token.index].content
                /\ ~next.trapped
                /\ next.body = enc.content_chunks[token.index + 1].content

====
